---- MODULE Spec2Model ----
(***************************************************************************)
(* State-machine model of the comment-widget dashboard (routes/*.py,       *)
(* utils/helpers.py, app.py) and of the backend export API                 *)
(* (~/Documentos/nocodebackend-api/api/export.py).                         *)
(*                                                                         *)
(* A request handler is one action.  The backend is an environment: the    *)
(* outcome of every awaited backend call is an input of the action.        *)
(* Strings that the code inspects character by character (email, name,     *)
(* password) are sequences of one-character strings; URL paths are         *)
(* sequences of segments.                                                  *)
(***************************************************************************)
EXTENDS Integers, Sequences, FiniteSets, TLC

VARIABLES
    sessions,   \* auth.sessions: session id -> [user, created_at]
    now,        \* wall clock, whole hours
    usec,       \* wall clock, sub-hour instant (strictly grows with every session minted)
    issued,     \* history: every session cookie ever issued -> what was stored for it
    loggedOut,  \* history: cookies that were presented to GET /logout while stored
    resp,       \* the response to the most recent request
    calls,      \* the backend calls the most recent request issued, in order
    apiReq,     \* backend export API: the most recent export request
    apiResp,    \* backend export API: its response
    created,    \* history: [via, url, external_page_id] of every thread-creation payload the dashboard sent
    helperReq,  \* utils/helpers.py: the function applied and its argument
    helperResp, \* utils/helpers.py: what it returned
    client,     \* utils/api_client.py: one call of a FrontendAPIClient method
    click,      \* enhanced_widget_automation.py: one call of safe_click
    widget,     \* widget_commenting_automation.py: one run of run_automation
    runner,     \* headless_pyautogui.py: one run of HeadlessPyAutoGUI.run
    enh,        \* enhanced_widget_automation.py: one run of main
    harness,    \* frontend_autotester.py: one run of main
    smoke,      \* final_autotester.py: one run of run_tests
    inflight    \* the event loop of the web application: its tasks and the one running

apiVars == <<apiReq, apiResp>>
scriptVars == <<helperReq, helperResp, client, click, widget, runner, enh, harness,
                smoke, inflight>>
vars == <<sessions, now, usec, issued, loggedOut, resp, calls, apiReq, apiResp,
          created, helperReq, helperResp, client, click, widget, runner, enh,
          harness, smoke, inflight>>

\* A program that is not running
Idle == [pc |-> "idle"]

\* An event loop with no task
NoTasks == [running |-> 0, tasks |-> <<>>]

ScriptsIdle ==
    /\ helperReq = Idle
    /\ helperResp = Idle
    /\ client = Idle
    /\ click = Idle
    /\ widget = Idle
    /\ runner = Idle
    /\ enh = Idle
    /\ harness = Idle
    /\ smoke = Idle
    /\ inflight = NoTasks

----------------------------------------------------------------------------
(* Bounds of the model *)

MaxTime == 36
TickHours == 12
MaxSessions == 2
MaxIds == 2
MaxThreads == 1
MaxComments == 3
MaxUserThreads == 2

(* Program constants *)

SESSION_MAX_AGE_HOURS == 24
MIN_NAME_LEN == 2
MIN_EMAIL_LEN == 5
MIN_PASSWORD_LEN == 6

----------------------------------------------------------------------------
(* Values *)

None == "None"
NotApplicable == "n/a"

\* User payloads a backend login/register call can answer with; "{}" is an
\* empty JSON object, which Python treats as false.
Payloads == {"alice", "{}"}

Falsy(v) == v = None \/ v = "{}"

Chars(n, c) == [i \in 1..n |-> c]

Emails ==
    { <<"a", "@", "b", ".", "c", "o">>,
      <<"A", "@", "b", ".", "c", "o">>,
      <<"a", "@", "b", ".", "c">>,
      <<"a", "b", "c", ".", "c", "o">>,
      <<"a", "@", "b", "c", "c", "o">>,
      <<>> }

Passwords == { Chars(n, "p") : n \in {0, 5, 6, 7} }

Names ==
    { <<>>, <<" ", "a", " ">>, <<" ", " ", " ">>, <<"a", "b">>,
      <<" ", "a", "b", " ">>, <<"a", " ", "b">> }

\* A request body that request.json() cannot parse.
Malformed == [malformed |-> TRUE]

\* The handler reads no request body.
NoBody == [malformed |-> FALSE]

NoStamp == [h |-> -1, u |-> -1]
NoCookie == [email |-> <<>>, stamp |-> NoStamp]
BogusCookie == [email |-> <<"?">>, stamp |-> NoStamp]

Now == [h |-> now, u |-> usec]

\* The cookies a client can present: none, one that was never issued, or any
\* that was ever issued (still stored or not).
Cookies == {NoCookie, BogusCookie} \cup DOMAIN issued

----------------------------------------------------------------------------
(* utils/helpers.py *)

Contains(s, c) == \E i \in 1..Len(s) : s[i] = c

validate_email(email) ==
    Contains(email, "@") /\ Contains(email, ".") /\ Len(email) > MIN_EMAIL_LEN

validate_password_off_by_one(password) == Len(password) >= MIN_PASSWORD_LEN - 1

validate_password(password) == Len(password) >= MIN_PASSWORD_LEN

\* The md5 digest of email and timestamp, kept as the pair it is computed
\* from (the digest is taken to be collision free).
generate_session_id(email) == [email |-> email, stamp |-> Now]

RECURSIVE lstrip(_)
lstrip(s) == IF s # <<>> /\ Head(s) = " " THEN lstrip(Tail(s)) ELSE s

RECURSIVE rstrip(_)
rstrip(s) ==
    IF s # <<>> /\ s[Len(s)] = " " THEN rstrip(SubSeq(s, 1, Len(s) - 1)) ELSE s

strip(s) == rstrip(lstrip(s))

lower(s) == [i \in 1..Len(s) |-> IF s[i] = "A" THEN "a" ELSE s[i]]

\* datetime.now() - created_at > timedelta(hours=24)
is_session_expired(created_at) ==
    \/ now - created_at.h > SESSION_MAX_AGE_HOURS
    \/ now - created_at.h = SESSION_MAX_AGE_HOURS /\ usec > created_at.u

----------------------------------------------------------------------------
(* The backend as seen through one awaited HTTP call *)

UpstreamStatuses == {401, 404, 500}

\* kind "json": 2xx with a JSON body; "text": 2xx with a body that is not
\* JSON; "status": a non-2xx answer; "transport": no answer at all.
Outcome(kind, status, body) == [kind |-> kind, status |-> status, body |-> body]

JsonOutcomes == { Outcome("json", 200, p) : p \in Payloads }
TextOutcome == Outcome("text", 200, "text")
StatusOutcomes == { Outcome("status", s, "") : s \in UpstreamStatuses }
TransportOutcome == Outcome("transport", 0, "")

Outcomes == JsonOutcomes \cup {TextOutcome, TransportOutcome} \cup StatusOutcomes

\* A smaller set with one outcome of each kind
SomeOutcomes ==
    { Outcome("json", 200, "alice"), TextOutcome, Outcome("status", 404, ""),
      TransportOutcome }

\* A success and a failure
TwoOutcomes == { Outcome("json", 200, "alice"), Outcome("status", 404, "") }

\* What a login or register call is answered with where only the session
\* matters
LoginOutcomes == JsonOutcomes \cup { Outcome("status", 401, "") }

Call(method, endpoint, data, o) ==
    [method |-> method, endpoint |-> endpoint, data |-> data, outcome |-> o]

Return(v) == [raised |-> FALSE, value |-> v, status |-> 0, detail |-> ""]
Raise(status, detail) ==
    [raised |-> TRUE, value |-> None, status |-> status, detail |-> detail]

----------------------------------------------------------------------------
(* Responses *)

NoContent == "no content"

BaseResp(route, cookie, user) ==
    [ route |-> route, cookie |-> cookie, request |-> NoBody, user |-> user,
      status |-> 200, location |-> <<>>, template |-> "", error |-> "",
      content |-> NoContent, media_type |-> "", ext |-> "",
      attachment |-> FALSE, set_cookie |-> NoCookie, format |-> "" ]

RedirectResponse(b, url) ==
    [b EXCEPT !.status = 302, !.location = url]

TemplateResponse(b, name, error) ==
    [b EXCEPT !.template = name, !.error = error, !.media_type = "text/html"]

JSONResponse(b, content) ==
    [b EXCEPT !.content = content, !.media_type = "application/json"]

\* An HTTPException that leaves the handler: FastAPI answers with its status
\* code and a JSON body {"detail": detail}.
HTTPExceptionResponse(b, status, detail) ==
    [b EXCEPT !.status = status, !.error = detail,
              !.media_type = "application/json"]

----------------------------------------------------------------------------
(* routes/auth.py *)

\* get_current_user with a sweep: every expired session is dropped on any call.
get_current_user_sweeps(cookie) ==
    LET kept == [k \in { j \in DOMAIN sessions :
                            ~is_session_expired(sessions[j].created_at) } |-> sessions[k]]
    IN IF cookie = NoCookie \/ cookie \notin DOMAIN kept
       THEN [user |-> None, sessions |-> kept]
       ELSE [user |-> kept[cookie].user, sessions |-> kept]

get_current_user_no_expiry(cookie) ==
    IF cookie = NoCookie \/ cookie \notin DOMAIN sessions
    THEN [user |-> None, sessions |-> sessions]
    ELSE [user |-> sessions[cookie].user, sessions |-> sessions]

\* The user the cookie resolves to, and the session mapping after the call
\* (an expired session is deleted by the check).
get_current_user(cookie) ==
    IF cookie = NoCookie \/ cookie \notin DOMAIN sessions
    THEN [user |-> None, sessions |-> sessions]
    ELSE IF is_session_expired(sessions[cookie].created_at)
         THEN [user |-> None,
               sessions |-> [k \in DOMAIN sessions \ {cookie} |-> sessions[k]]]
         ELSE [user |-> sessions[cookie].user, sessions |-> sessions]

\* backend_request with a 2xx body that is not JSON handed back as it is.
backend_request_text_passes(o) ==
    IF o.kind \in {"json", "text"} THEN Return(o.body)
    ELSE IF o.kind = "status" THEN Raise(o.status, "HTTPStatusError")
    ELSE Raise(500, "transport")

\* One awaited backend call: the parsed JSON body, or an HTTPException that
\* carries the upstream status when there is one and 500 otherwise (a 2xx
\* body that is not JSON makes response.json() raise).
backend_request(o) ==
    IF o.kind = "json" THEN Return(o.body)
    ELSE IF o.kind = "status" THEN Raise(o.status, "HTTPStatusError")
    ELSE IF o.kind = "text" THEN Raise(500, "JSONDecodeError")
    ELSE Raise(500, "transport")

StoreSession(sid, user) ==
    LET entry == [user |-> user, created_at |-> Now] IN
    /\ sessions' = [k \in DOMAIN sessions \cup {sid} |->
                        IF k = sid THEN entry ELSE sessions[k]]
    /\ issued' = [k \in DOMAIN issued \cup {sid} |->
                        IF k = sid THEN entry ELSE issued[k]]
    /\ usec' = usec + 1

login_page(cookie) ==
    /\ resp' = TemplateResponse(BaseResp("auth.login_page", cookie, NotApplicable),
                                "auth/login.html", "")
    /\ calls' = <<>>
    /\ UNCHANGED <<sessions, now, usec, issued, loggedOut>>
    /\ UNCHANGED apiVars
    /\ UNCHANGED <<created, scriptVars>>

login(cookie, email, password, o) ==
    LET b == [BaseResp("auth.login", cookie, NotApplicable) EXCEPT
                 !.request = [email |-> email, password |-> password]]
        call == Call("POST", <<"auth", "login">>,
                     [email |-> email, password |-> password], o)
        r == backend_request(o)
        session_id == generate_session_id(email)
    IN
    /\ UNCHANGED <<now, loggedOut>>
    /\ UNCHANGED apiVars
    /\ UNCHANGED <<created, scriptVars>>
    /\ IF ~validate_email(email) \/ ~validate_password(password)
       THEN /\ resp' = TemplateResponse(b, "auth/login.html", "Invalid credentials")
            /\ calls' = <<>>
            /\ UNCHANGED <<sessions, issued, usec>>
       ELSE /\ calls' = <<call>>
            /\ IF r.raised
               THEN /\ resp' = TemplateResponse(b, "auth/login.html",
                                                "Invalid credentials")
                    /\ UNCHANGED <<sessions, issued, usec>>
               ELSE /\ usec < MaxSessions
                    /\ StoreSession(session_id, r.value)
                    /\ resp' = [RedirectResponse(b, <<"dashboard">>)
                                   EXCEPT !.set_cookie = session_id]

register_page(cookie) ==
    /\ resp' = TemplateResponse(BaseResp("auth.register_page", cookie, NotApplicable),
                                "auth/register.html", "")
    /\ calls' = <<>>
    /\ UNCHANGED <<sessions, now, usec, issued, loggedOut>>
    /\ UNCHANGED apiVars
    /\ UNCHANGED <<created, scriptVars>>

register(cookie, name, email, password, o) ==
    LET b == [BaseResp("auth.register", cookie, NotApplicable) EXCEPT
                 !.request = [name |-> name, email |-> email,
                              password |-> password]]
        call == Call("POST", <<"auth", "register">>,
                     [name |-> strip(name), email |-> lower(email),
                      password |-> password], o)
        r == backend_request(o)
        session_id == generate_session_id(email)
        invalid(msg) ==
            /\ resp' = TemplateResponse(b, "auth/register.html", msg)
            /\ calls' = <<>>
            /\ UNCHANGED <<sessions, issued, usec>>
    IN
    /\ UNCHANGED <<now, loggedOut>>
    /\ UNCHANGED apiVars
    /\ UNCHANGED <<created, scriptVars>>
    /\ IF name = <<>> \/ Len(strip(name)) < MIN_NAME_LEN
       THEN invalid("Name must be at least 2 characters")
       ELSE IF ~validate_email(email)
       THEN invalid("Invalid email format")
       ELSE IF ~validate_password(password)
       THEN invalid("Password must be at least 6 characters")
       ELSE /\ calls' = <<call>>
            /\ IF r.raised
               THEN /\ resp' = TemplateResponse(b, "auth/register.html", r.detail)
                    /\ UNCHANGED <<sessions, issued, usec>>
               ELSE /\ usec < MaxSessions
                    /\ StoreSession(session_id, r.value)
                    /\ resp' = [RedirectResponse(b, <<"dashboard">>)
                                   EXCEPT !.set_cookie = session_id]

\* A logout that ends every session of the cookie's user.
logout_everywhere(cookie) ==
    LET b == BaseResp("auth.logout", cookie, NotApplicable) IN
    /\ IF cookie # NoCookie /\ cookie \in DOMAIN sessions
       THEN /\ sessions' = [k \in { j \in DOMAIN sessions :
                                       sessions[j].user # sessions[cookie].user }
                                |-> sessions[k]]
            /\ loggedOut' = loggedOut \cup {cookie}
       ELSE UNCHANGED <<sessions, loggedOut>>
    /\ resp' = RedirectResponse(b, <<"auth", "login">>)
    /\ calls' = <<>>
    /\ UNCHANGED <<now, usec, issued>>
    /\ UNCHANGED apiVars
    /\ UNCHANGED <<created, scriptVars>>

logout(cookie) ==
    LET b == BaseResp("auth.logout", cookie, NotApplicable) IN
    /\ IF cookie # NoCookie /\ cookie \in DOMAIN sessions
       THEN /\ sessions' = [k \in DOMAIN sessions \ {cookie} |-> sessions[k]]
            /\ loggedOut' = loggedOut \cup {cookie}
       ELSE UNCHANGED <<sessions, loggedOut>>
    /\ resp' = RedirectResponse(b, <<"auth", "login">>)
    /\ calls' = <<>>
    /\ UNCHANGED <<now, usec, issued>>
    /\ UNCHANGED apiVars
    /\ UNCHANGED <<created, scriptVars>>

\* Time passes between requests.
Tick ==
    /\ now + TickHours <= MaxTime
    /\ now' = now + TickHours
    /\ UNCHANGED <<sessions, usec, issued, loggedOut, resp, calls>>
    /\ UNCHANGED apiVars
    /\ UNCHANGED <<created, scriptVars>>

----------------------------------------------------------------------------
(* Shapes shared by the route handlers *)

\* The thread-creation payloads among the calls of a dashboard handler, as
\* the [url, external_page_id] the backend is sent and the handler sending it.
ThreadsSent(route, cs) ==
    IF route \in {"dashboard.create_site", "dashboard.create_thread"}
    THEN { [via |-> route, url |-> cs[i].data.url,
            external_page_id |-> cs[i].data.external_page_id] :
              i \in 1..Len(cs) }
    ELSE {}

\* The handler's effect on the state: its response, the backend calls it
\* made, and the session mapping its get_current_user dependency left.
Respond(r, cs, sess) ==
    /\ resp' = r
    /\ calls' = cs
    /\ sessions' = sess
    /\ created' = created \cup ThreadsSent(r.route, cs)
    /\ UNCHANGED <<now, usec, issued, loggedOut>>
    /\ UNCHANGED apiVars
    /\ UNCHANGED scriptVars

\* Index of the first call of a sequence that raises, 0 if none does.
FirstRaise(outs) ==
    IF \E i \in 1..Len(outs) : backend_request(outs[i]).raised
    THEN CHOOSE i \in 1..Len(outs) :
            /\ backend_request(outs[i]).raised
            /\ \A j \in 1..(i - 1) : ~backend_request(outs[j]).raised
    ELSE 0

\* Awaited calls made one after the other inside one try block: the calls
\* up to and including the first that raises.
Performed(reqs, outs) ==
    LET k == FirstRaise(outs)
        n == IF k = 0 THEN Len(reqs) ELSE k
    IN [i \in 1..n |-> Call(reqs[i].method, reqs[i].endpoint, reqs[i].data, outs[i])]

\* Calls whose failures are swallowed one by one (try/except inside a loop).
PerformedAll(reqs, outs) ==
    [i \in 1..Len(reqs) |-> Call(reqs[i].method, reqs[i].endpoint, reqs[i].data, outs[i])]

Req(method, endpoint, data) == [method |-> method, endpoint |-> endpoint, data |-> data]


TwoOutcomeSeqs(n) == [1..n -> TwoOutcomes]

----------------------------------------------------------------------------
(* routes/dashboard.py *)

\* The url every HTML view redirects an anonymous visitor to.
LOGIN_REDIRECT == <<"login">>

\* An HTML view: redirect when there is no user, otherwise the calls of the
\* try block and the template, rendered with empty data when a call raised.
HtmlView(route, cookie, template, reqs, outs) ==
    LET g == get_current_user(cookie)
        b == BaseResp(route, cookie, g.user)
    IN IF Falsy(g.user)
       THEN Respond(RedirectResponse(b, LOGIN_REDIRECT), <<>>, g.sessions)
       ELSE Respond([TemplateResponse(b, template, "") EXCEPT
                        !.content = IF FirstRaise(outs) = 0 THEN "data" ELSE "empty"],
                    Performed(reqs, outs), g.sessions)

dashboard(cookie, outs) ==
    LET uid == get_current_user(cookie).user IN
    HtmlView("dashboard.dashboard", cookie, "dashboard/home.html",
             << Req("GET", <<"threads">>, [usuario_proprietario_id |-> uid]),
                Req("GET", <<"comments">>, [is_approved |-> 0, limit |-> 10]) >>,
             outs)

threads_page(cookie, outs) ==
    LET uid == get_current_user(cookie).user IN
    HtmlView("dashboard.threads_page", cookie, "dashboard/threads.html",
             << Req("GET", <<"threads">>, [usuario_proprietario_id |-> uid]) >>,
             outs)

comments_page(cookie, outs) ==
    HtmlView("dashboard.comments_page", cookie, "dashboard/comments.html",
             << Req("GET", <<"comments">>, [is_approved |-> 0]),
                Req("GET", <<"comments">>, [is_approved |-> 1, limit |-> 50]) >>,
             outs)

sites_page(cookie, outs) ==
    LET uid == get_current_user(cookie).user IN
    HtmlView("dashboard.sites_page", cookie, "dashboard/sites.html",
             << Req("GET", <<"threads">>, [usuario_proprietario_id |-> uid]) >>,
             outs)

\* The thread list call, then one comments call per thread of the answer;
\* a failing comments call is skipped.
site_detail_page(cookie, site_id, o, threadIds, outs) ==
    LET g == get_current_user(cookie)
        b == BaseResp("dashboard.site_detail_page", cookie, g.user)
        first == Call("GET", <<"threads">>,
                      [usuario_proprietario_id |-> g.user,
                       external_page_id |-> site_id], o)
        perThread == [i \in 1..Len(threadIds) |->
                        Req("GET", <<"comments">>,
                            [thread_referencia_id |-> threadIds[i]])]
        t == TemplateResponse(b, "dashboard/site_detail.html", "")
    IN IF Falsy(g.user)
       THEN Respond(RedirectResponse(b, LOGIN_REDIRECT), <<>>, g.sessions)
       ELSE IF backend_request(o).raised
       THEN Respond([t EXCEPT !.content = "empty"], <<first>>, g.sessions)
       ELSE Respond([t EXCEPT !.content = "data"],
                    <<first>> \o PerformedAll(perThread, outs), g.sessions)

theme_customizer(cookie) ==
    HtmlView("dashboard.theme_customizer", cookie,
             "dashboard/theme-customizer.html", <<>>, <<>>)

ActionEndpoint_unguarded(route, cookie, req, o, redirect, failure) ==
    LET g == get_current_user(cookie)
        b == BaseResp(route, cookie, g.user)
    IN IF backend_request(o).raised
       THEN Respond(HTTPExceptionResponse(b, 500, failure),
                    <<Call(req.method, req.endpoint, req.data, o)>>, g.sessions)
       ELSE Respond(RedirectResponse(b, redirect),
                    <<Call(req.method, req.endpoint, req.data, o)>>, g.sessions)

\* A form/action endpoint: 401 when there is no user, otherwise one backend
\* call, a redirect when it returns and a 500 when it raises.
ActionEndpoint(route, cookie, req, o, redirect, failure) ==
    LET g == get_current_user(cookie)
        b == BaseResp(route, cookie, g.user)
    IN IF Falsy(g.user)
       THEN Respond(HTTPExceptionResponse(b, 401, "Not authenticated"), <<>>,
                    g.sessions)
       ELSE IF backend_request(o).raised
       THEN Respond(HTTPExceptionResponse(b, 500, failure),
                    <<Call(req.method, req.endpoint, req.data, o)>>, g.sessions)
       ELSE Respond(RedirectResponse(b, redirect),
                    <<Call(req.method, req.endpoint, req.data, o)>>, g.sessions)

dashboard_moderate_comment(cookie, comment_id, action, o) ==
    ActionEndpoint("dashboard.moderate_comment", cookie,
                   Req("PUT", <<"comments", comment_id, "moderate">>,
                       [is_approved |-> IF action = "approve" THEN 1 ELSE 2]),
                   o, <<"dashboard", "comments">>, "Failed to moderate comment")

dashboard_delete_comment(cookie, comment_id, o) ==
    ActionEndpoint("dashboard.delete_comment", cookie,
                   Req("DELETE", <<"comments", comment_id>>, None),
                   o, <<"dashboard", "comments">>, "Failed to delete comment")

\* md5(url).hexdigest()[:16], kept as the url it is the digest of.
generate_site_id_salted(url) == <<"md5_16", url, now>>

generate_site_id(url) == <<"md5_16", url>>

MAIN_THREAD_SUFFIX == <<" - Main Thread">>

create_site(cookie, site_name, site_url, o) ==
    LET uid == get_current_user(cookie).user IN
    ActionEndpoint("dashboard.create_site", cookie,
                   Req("POST", <<"threads">>,
                       [usuario_proprietario_id |-> uid,
                        external_page_id |-> generate_site_id(site_url),
                        url |-> site_url,
                        title |-> site_name \o MAIN_THREAD_SUFFIX]),
                   o, <<"dashboard", "sites">>, "Failed to create site")

dashboard_create_thread(cookie, title, url, o) ==
    LET uid == get_current_user(cookie).user IN
    ActionEndpoint("dashboard.create_thread", cookie,
                   Req("POST", <<"threads">>,
                       [usuario_proprietario_id |-> uid,
                        external_page_id |-> generate_site_id(url),
                        url |-> url,
                        title |-> title]),
                   o, <<"dashboard", "threads">>, "Failed to create thread")

dashboard_delete_thread(cookie, thread_id, o) ==
    ActionEndpoint("dashboard.delete_thread", cookie,
                   Req("DELETE", <<"threads", thread_id>>, None),
                   o, <<"dashboard", "threads">>, "Failed to delete thread")

----------------------------------------------------------------------------
(* routes/export.py *)

\* Preview page: the thread list, then one comment count per thread (a
\* failing count contributes 0).
export_page(cookie, o, threadIds, outs) ==
    LET g == get_current_user(cookie)
        b == BaseResp("export.export_page", cookie, g.user)
        first == Call("GET", <<"api", "v1", "threads">>,
                      [usuario_proprietario_id |-> g.user], o)
        perThread == [i \in 1..Len(threadIds) |->
                        Req("GET", <<"api", "v1", "comments">>,
                            [thread_referencia_id |-> threadIds[i]])]
        t == TemplateResponse(b, "dashboard/export.html", "")
    IN IF Falsy(g.user)
       THEN Respond(RedirectResponse(b, LOGIN_REDIRECT), <<>>, g.sessions)
       ELSE IF backend_request(o).raised
       THEN Respond([t EXCEPT !.content = "empty"], <<first>>, g.sessions)
       ELSE Respond([t EXCEPT !.content = "data"],
                    <<first>> \o PerformedAll(perThread, outs), g.sessions)

export_thread_page(cookie, thread_id, outs) ==
    LET g == get_current_user(cookie)
        b == BaseResp("export.export_thread_page", cookie, g.user)
        reqs == << Req("GET", <<"api", "v1", "threads", thread_id, "status">>, None),
                   Req("GET", <<"api", "v1", "comments">>,
                       [thread_referencia_id |-> thread_id]) >>
    IN IF Falsy(g.user)
       THEN Respond(RedirectResponse(b, LOGIN_REDIRECT), <<>>, g.sessions)
       ELSE IF FirstRaise(outs) # 0
       THEN Respond(HTTPExceptionResponse(b, 404, "Thread not found"),
                    Performed(reqs, outs), g.sessions)
       ELSE Respond([TemplateResponse(b, "dashboard/export_thread.html", "")
                        EXCEPT !.content = "data"],
                    Performed(reqs, outs), g.sessions)

export_site_page(cookie, site_id, o, threadIds, outs) ==
    LET g == get_current_user(cookie)
        b == BaseResp("export.export_site_page", cookie, g.user)
        first == Call("GET", <<"api", "v1", "threads">>,
                      [usuario_proprietario_id |-> g.user,
                       external_page_id |-> site_id], o)
        perThread == [i \in 1..Len(threadIds) |->
                        Req("GET", <<"api", "v1", "comments">>,
                            [thread_referencia_id |-> threadIds[i]])]
    IN IF Falsy(g.user)
       THEN Respond(RedirectResponse(b, LOGIN_REDIRECT), <<>>, g.sessions)
       ELSE IF backend_request(o).raised
       THEN Respond(HTTPExceptionResponse(b, 404, "Site not found"),
                    <<first>>, g.sessions)
       ELSE Respond([TemplateResponse(b, "dashboard/export_site.html", "")
                        EXCEPT !.content = "data"],
                    <<first>> \o PerformedAll(perThread, outs), g.sessions)

\* A download endpoint: 401 when there is no user; one backend call; 500
\* "Export failed" when it raises; otherwise the content streamed as an
\* attachment whose media type and extension follow export_format (json
\* for any format outside `types`).
Download(route, cookie, req, o, export_format, types) ==
    LET g == get_current_user(cookie)
        b == [BaseResp(route, cookie, g.user) EXCEPT !.format = export_format]
        call == Call(req.method, req.endpoint, req.data, o)
        r == backend_request(o)
        fmt == IF export_format \in DOMAIN types THEN export_format ELSE "json"
    IN IF Falsy(g.user)
       THEN Respond(HTTPExceptionResponse(b, 401, "Not authenticated"), <<>>,
                    g.sessions)
       ELSE IF r.raised
       THEN Respond(HTTPExceptionResponse(b, 500, "Export failed"), <<call>>,
                    g.sessions)
       ELSE Respond([b EXCEPT !.content = r.value,
                              !.media_type = types[fmt],
                              !.ext = fmt,
                              !.attachment = TRUE],
                    <<call>>, g.sessions)

USER_EXPORT_TYPES ==
    [yaml |-> "application/yaml", csv |-> "text/csv", json |-> "application/json"]

THREAD_EXPORT_TYPES ==
    [html |-> "text/html", yaml |-> "application/yaml", json |-> "application/json"]

SITE_EXPORT_TYPES ==
    [yaml |-> "application/yaml", json |-> "application/json"]

download_export(cookie, export_format, include_comments, include_metadata, o) ==
    Download("export.download_export", cookie,
             Req("GET", <<"api", "export", "user", "data">>,
                 [format |-> export_format,
                  include_comments |-> include_comments,
                  include_metadata |-> include_metadata]),
             o, export_format, USER_EXPORT_TYPES)

download_thread_export(cookie, thread_id, export_format, template, o) ==
    Download("export.download_thread_export", cookie,
             Req("GET", <<"api", "export", "threads", thread_id>>,
                 [format |-> export_format, template |-> template]),
             o, export_format, THREAD_EXPORT_TYPES)

download_site_export(cookie, site_id, export_format, o) ==
    Download("export.download_site_export", cookie,
             Req("GET", <<"api", "export", "sites", site_id>>,
                 [format |-> export_format]),
             o, export_format, SITE_EXPORT_TYPES)

----------------------------------------------------------------------------
(* JSON proxy endpoints: routes/comments.py, threads.py, widget.py, api.py *)

\* The user of a router without the get_current_user dependency.
NoDependency == [user |-> NotApplicable, sessions |-> sessions]

\* A proxy endpoint: 401 when it requires a user and there is none (raised
\* outside the try block); inside the try block the request body is read
\* (where the handler reads one), one backend call is made and its result
\* returned; `except Exception` turns whatever was raised inside the block,
\* the helper's HTTPException included, into a 500.
ProxyEndpoint(route, cookie, g, authRequired, body, req, o, r) ==
    LET b == BaseResp(route, cookie, g.user)
        call == Call(req.method, req.endpoint, req.data, o)
    IN IF authRequired /\ Falsy(g.user)
       THEN Respond(HTTPExceptionResponse(b, 401, "Not authenticated"), <<>>,
                    g.sessions)
       ELSE IF body = Malformed
       THEN Respond(HTTPExceptionResponse(b, 500, "JSONDecodeError"), <<>>,
                    g.sessions)
       ELSE IF r.raised
       THEN Respond(HTTPExceptionResponse(b, 500, r.detail), <<call>>, g.sessions)
       ELSE Respond(JSONResponse(b, r.value), <<call>>, g.sessions)

create_comment(cookie, form, o) ==
    ProxyEndpoint("comments.create_comment", cookie, get_current_user(cookie),
                  FALSE, NoBody, Req("POST", <<"comments">>, form), o,
                  backend_request(o))

list_comments(cookie, params, o) ==
    ProxyEndpoint("comments.list_comments", cookie, get_current_user(cookie),
                  FALSE, NoBody, Req("GET", <<"comments">>, params), o,
                  backend_request(o))

get_comment(cookie, comment_id, o) ==
    ProxyEndpoint("comments.get_comment", cookie, get_current_user(cookie),
                  FALSE, NoBody, Req("GET", <<"comments", comment_id>>, None), o,
                  backend_request(o))

comments_delete_comment(cookie, comment_id, o) ==
    ProxyEndpoint("comments.delete_comment", cookie, get_current_user(cookie),
                  TRUE, NoBody, Req("DELETE", <<"comments", comment_id>>, None), o,
                  backend_request(o))

comments_moderate_comment(cookie, comment_id, body, o) ==
    ProxyEndpoint("comments.moderate_comment", cookie, get_current_user(cookie),
                  TRUE, body,
                  Req("PUT", <<"comments", comment_id, "moderate">>, body), o,
                  backend_request(o))

BulkResult_first_failure_stops(ids, outs, i) ==
    LET r == backend_request(outs[i])
        stopped == \E j \in 1..(i - 1) : backend_request(outs[j]).raised
    IN IF r.raised \/ stopped
       THEN [comment_id |-> ids[i], success |-> FALSE, error |-> "aborted"]
       ELSE [comment_id |-> ids[i], success |-> TRUE, result |-> r.value]

\* The entry the loop appends for the i-th id.
BulkResult(ids, outs, i) ==
    LET r == backend_request(outs[i]) IN
    IF r.raised
    THEN [comment_id |-> ids[i], success |-> FALSE, error |-> r.detail]
    ELSE [comment_id |-> ids[i], success |-> TRUE, result |-> r.value]

moderate_comments_bulk(cookie, body, outs) ==
    LET g == get_current_user(cookie)
        b == [BaseResp("comments.moderate_comments_bulk", cookie, g.user)
                 EXCEPT !.request = body]
        ids == body.comment_ids
        reqs == [i \in 1..Len(ids) |->
                    Req("PUT", <<"comments", ids[i], "moderate">>,
                        [is_approved |-> body.is_approved])]
        results == [i \in 1..Len(ids) |-> BulkResult(ids, outs, i)]
    IN IF Falsy(g.user)
       THEN Respond(HTTPExceptionResponse(b, 401, "Not authenticated"), <<>>,
                    g.sessions)
       ELSE IF body = Malformed
       THEN Respond(HTTPExceptionResponse(b, 500, "JSONDecodeError"), <<>>,
                    g.sessions)
       ELSE Respond(JSONResponse(b, [results |-> results]),
                    PerformedAll(reqs, outs), g.sessions)

threads_create_thread(cookie, body, o) ==
    LET g == get_current_user(cookie) IN
    ProxyEndpoint("threads.create_thread", cookie, g, TRUE, body,
                  Req("POST", <<"threads">>,
                      [usuario_proprietario_id |-> g.user, body |-> body]), o,
                  backend_request(o))

list_threads(cookie, params, o) ==
    ProxyEndpoint("threads.list_threads", cookie, get_current_user(cookie),
                  FALSE, NoBody, Req("GET", <<"threads">>, params), o,
                  backend_request(o))

get_thread(cookie, thread_id, o) ==
    ProxyEndpoint("threads.get_thread", cookie, get_current_user(cookie),
                  FALSE, NoBody, Req("GET", <<"threads", thread_id>>, None), o,
                  backend_request(o))

threads_delete_thread(cookie, thread_id, o) ==
    ProxyEndpoint("threads.delete_thread", cookie, get_current_user(cookie),
                  TRUE, NoBody, Req("DELETE", <<"threads", thread_id>>, None), o,
                  backend_request(o))

backend_request_widget(o) ==
    IF o.kind = "json" THEN Return(o.body)
    ELSE IF o.kind = "status" THEN Raise(o.status, "HTTPStatusError")
    ELSE IF o.kind = "text" THEN Raise(500, "JSONDecodeError")
    ELSE Raise(500, "transport")

get_widget_comments(cookie, thread_id, o) ==
    ProxyEndpoint("widget.get_widget_comments", cookie, NoDependency, FALSE, NoBody,
                  Req("GET", <<"widget", "comments", thread_id>>, None), o,
                  backend_request_widget(o))

get_demo_thread(cookie, o) ==
    ProxyEndpoint("widget.get_demo_thread", cookie, NoDependency, FALSE, NoBody,
                  Req("GET", <<"widget", "demo", "thread">>, None), o,
                  backend_request_widget(o))

backend_request_api(o) ==
    IF o.kind = "json" THEN Return(o.body)
    ELSE IF o.kind = "status" THEN Raise(o.status, "HTTPStatusError")
    ELSE IF o.kind = "text" THEN Raise(500, "JSONDecodeError")
    ELSE Raise(500, "transport")

api_list_comments(cookie, params, o) ==
    ProxyEndpoint("api.api_list_comments", cookie, NoDependency, FALSE, NoBody,
                  Req("GET", <<"api", "comments">>, params), o,
                  backend_request_api(o))

api_get_comment_stats(cookie, o) ==
    ProxyEndpoint("api.api_get_comment_stats", cookie, NoDependency, FALSE, NoBody,
                  Req("GET", <<"api", "comments", "stats">>, None), o,
                  backend_request_api(o))

----------------------------------------------------------------------------
(* routes/default.py *)

HealthBody(status, code, message) ==
    [status |-> status, code |-> code, message |-> message]

\* What the backend's own / and /health can answer with.
DefaultOutcomes ==
    { Outcome("json", 200, HealthBody("healthy", 0, "")),
      Outcome("json", 200, HealthBody("degraded", 0, "")),
      TextOutcome, TransportOutcome }
    \cup StatusOutcomes

backend_request_default_masks_failure(endpoint, o) ==
    IF o.kind = "json" THEN Return(o.body)
    ELSE Return(HealthBody("healthy", 0, ""))

\* The default router's helper: for /health a failure is returned as an
\* error body; for any other endpoint it is raised again as it is.
backend_request_default(endpoint, o) ==
    IF o.kind = "json" THEN Return(o.body)
    ELSE IF o.kind = "status"
    THEN IF endpoint = <<"health">>
         THEN Return(HealthBody("error", o.status, ""))
         ELSE Raise(o.status, "HTTPStatusError")
    ELSE IF endpoint = <<"health">>
         THEN Return(HealthBody("error", 0,
                                IF o.kind = "text" THEN "JSONDecodeError"
                                                   ELSE "transport"))
         ELSE Raise(500, IF o.kind = "text" THEN "JSONDecodeError" ELSE "transport")

root(cookie, o) ==
    LET b == BaseResp("default.root", cookie, NotApplicable)
        r == backend_request_default(<<>>, o)
    IN Respond(JSONResponse(b, IF r.raised
                               THEN HealthBody("", 0, "NoCode Backend Frontend Proxy")
                               ELSE r.value),
               <<Call("GET", <<>>, None, o)>>, sessions)

health(cookie, o) ==
    LET b == BaseResp("default.health", cookie, NotApplicable)
        r == backend_request_default(<<"health">>, o)
    IN Respond(JSONResponse(b, IF r.raised
                               THEN HealthBody("error", 0, r.detail)
                               ELSE r.value),
               <<Call("GET", <<"health">>, None, o)>>, sessions)

----------------------------------------------------------------------------
(* app.py: the composed application *)

PREFIX ==
    [ pages |-> <<>>, auth |-> <<"auth">>, dashboard |-> <<>>,
      export |-> <<"dashboard">>, comments |-> <<"comments">>,
      threads |-> <<"threads">>, widget |-> <<"widget">>, api |-> <<"api">>,
      default |-> <<>> ]

Param == "{}"

Route(prefix, handler, method, path) ==
    [handler |-> handler, method |-> method, path |-> prefix \o path]

\* The routes of the routers, in the order app.py includes them.
RoutesUnder(prefix) ==
    << Route(prefix.pages, "pages.home", "GET", <<>>),
       Route(prefix.auth, "auth.login_page", "GET", <<"login">>),
       Route(prefix.auth, "auth.login", "POST", <<"login">>),
       Route(prefix.auth, "auth.register_page", "GET", <<"register">>),
       Route(prefix.auth, "auth.register", "POST", <<"register">>),
       Route(prefix.auth, "auth.logout", "GET", <<"logout">>),
       Route(prefix.dashboard, "dashboard.dashboard", "GET", <<"dashboard">>),
       Route(prefix.dashboard, "dashboard.threads_page", "GET", <<"dashboard", "threads">>),
       Route(prefix.dashboard, "dashboard.comments_page", "GET", <<"dashboard", "comments">>),
       Route(prefix.dashboard, "dashboard.moderate_comment", "POST",
             <<"dashboard", "comments", Param, "moderate">>),
       Route(prefix.dashboard, "dashboard.delete_comment", "DELETE",
             <<"dashboard", "comments", Param>>),
       Route(prefix.dashboard, "dashboard.create_site", "POST", <<"dashboard", "sites">>),
       Route(prefix.dashboard, "dashboard.sites_page", "GET", <<"dashboard", "sites">>),
       Route(prefix.dashboard, "dashboard.site_detail_page", "GET",
             <<"dashboard", "sites", Param>>),
       Route(prefix.dashboard, "dashboard.create_thread", "POST", <<"dashboard", "threads">>),
       Route(prefix.dashboard, "dashboard.delete_thread", "DELETE",
             <<"dashboard", "threads", Param>>),
       Route(prefix.dashboard, "dashboard.theme_customizer", "GET",
             <<"dashboard", "theme-customizer">>),
       Route(prefix.export, "export.export_page", "GET", <<"dashboard", "export">>),
       Route(prefix.export, "export.download_export", "POST",
             <<"dashboard", "export", "download">>),
       Route(prefix.export, "export.export_thread_page", "GET",
             <<"dashboard", "export", "thread", Param>>),
       Route(prefix.export, "export.download_thread_export", "POST",
             <<"dashboard", "export", "thread", Param, "download">>),
       Route(prefix.export, "export.export_site_page", "GET",
             <<"dashboard", "export", "site", Param>>),
       Route(prefix.export, "export.download_site_export", "POST",
             <<"dashboard", "export", "site", Param, "download">>),
       Route(prefix.comments, "comments.create_comment", "POST", <<>>),
       Route(prefix.comments, "comments.list_comments", "GET", <<>>),
       Route(prefix.comments, "comments.get_comment", "GET", <<Param>>),
       Route(prefix.comments, "comments.delete_comment", "DELETE", <<Param>>),
       Route(prefix.comments, "comments.moderate_comment", "PUT", <<Param, "moderate">>),
       Route(prefix.comments, "comments.moderate_comments_bulk", "POST", <<"moderate">>),
       Route(prefix.threads, "threads.create_thread", "POST", <<>>),
       Route(prefix.threads, "threads.list_threads", "GET", <<>>),
       Route(prefix.threads, "threads.get_thread", "GET", <<Param>>),
       Route(prefix.threads, "threads.delete_thread", "DELETE", <<Param>>),
       Route(prefix.widget, "widget.get_widget_comments", "GET", <<"comments", Param>>),
       Route(prefix.widget, "widget.get_demo_thread", "GET", <<"demo", "thread">>),
       Route(prefix.api, "api.api_list_comments", "GET", <<"comments">>),
       Route(prefix.api, "api.api_get_comment_stats", "GET", <<"comments", "stats">>),
       Route(prefix.default, "default.root", "GET", <<>>),
       Route(prefix.default, "default.health", "GET", <<"health">>) >>

Routes == RoutesUnder(PREFIX)

Matches(route, method, path) ==
    /\ route.method = method
    /\ Len(route.path) = Len(path)
    /\ \A i \in 1..Len(path) : route.path[i] = Param \/ route.path[i] = path[i]

NotFound == "404"

\* The handler the application dispatches a request to: the first matching
\* route in registration order, or the 404 page.
Resolve(method, path) ==
    IF \E i \in 1..Len(Routes) : Matches(Routes[i], method, path)
    THEN Routes[CHOOSE i \in 1..Len(Routes) :
                    /\ Matches(Routes[i], method, path)
                    /\ \A j \in 1..(i - 1) : ~Matches(Routes[j], method, path)].handler
    ELSE NotFound

----------------------------------------------------------------------------------------------------------------------------------------
(* Inputs of the requests *)

ValidEmail == <<"a", "@", "b", ".", "c", "o">>
ValidPassword == Chars(MIN_PASSWORD_LEN, "p")
ValidName == <<"a", "b">>

CommentIds == {1, 2}
ThreadIds == 1..MaxThreads
SiteIds == {"site-1"}
Urls == {"https://a.com", "https://b.com"}
SiteNames == {<<"Blog">>, <<"My", " - ", "Blog">>}
Formats == {"json", "yaml", "csv", "html", "xml"}
Templates == {"default", "neocities"}
Approvals == {1, 2}

SeqsUpTo(S, n) == UNION { [1..k -> S] : k \in 0..n }

BulkBodies ==
    {Malformed} \cup
    [comment_ids : SeqsUpTo(CommentIds, MaxIds), is_approved : Approvals]

BodyLen(body) == IF body = Malformed THEN 0 ELSE Len(body.comment_ids)

\* What one moderate call of a batch is answered with
BulkOutcomes ==
    { Outcome("json", 200, "alice"), Outcome("status", 404, ""), TransportOutcome }

----------------------------------------------------------------------------
(* The initial state: the process has just started *)

IdleApiReq == [op |-> "none"]
IdleApiResp == [status |-> 0]

Init ==
    /\ sessions = <<>>
    /\ now = 0
    /\ usec = 0
    /\ issued = <<>>
    /\ loggedOut = {}
    /\ resp = BaseResp("none", NoCookie, NotApplicable)
    /\ calls = <<>>
    /\ apiReq = IdleApiReq
    /\ apiResp = IdleApiResp
    /\ created = {}
    /\ ScriptsIdle

----------------------------------------------------------------------------
(* Spec: the session lifecycle.  Visitors log in, register, log out and    *)
(* open the dashboard while time passes.                                   *)

Next ==
    \/ \E c \in Cookies : login_page(c)
    \/ \E e \in {ValidEmail, <<>>}, o \in LoginOutcomes :
          login(NoCookie, e, ValidPassword, o)
    \/ \E c \in Cookies : register_page(c)
    \/ \E n \in {ValidName, <<>>}, o \in LoginOutcomes :
          register(NoCookie, n, ValidEmail, ValidPassword, o)
    \/ \E c \in Cookies : logout(c)
    \/ \E c \in Cookies, outs \in TwoOutcomeSeqs(2) : dashboard(c, outs)
    \/ Tick

Spec == Init /\ [][Next]_vars

----------------------------------------------------------------------------
(* SpecForms: the login and registration forms, over every class of input *)

FormsNext ==
    \/ \E e \in Emails, p \in Passwords, o \in SomeOutcomes :
          login(NoCookie, e, p, o)
    \/ \E n \in Names, e \in Emails, p \in Passwords, o \in SomeOutcomes :
          register(NoCookie, n, e, p, o)

SpecForms == Init /\ [][FormsNext]_vars

----------------------------------------------------------------------------
(* SpecGuards: one visitor, who logs in at most once, requests every view  *)
(* and every endpoint that asks for a user.                                *)

FirstLogin(o) ==
    /\ DOMAIN issued = {}
    /\ login(NoCookie, ValidEmail, ValidPassword, o)

GuardsNext ==
    \/ \E o \in LoginOutcomes : FirstLogin(o)
    \/ \E c \in Cookies : logout(c)
    \/ Tick
    \/ \E c \in Cookies, outs \in TwoOutcomeSeqs(2) : dashboard(c, outs)
    \/ \E c \in Cookies, outs \in TwoOutcomeSeqs(1) : threads_page(c, outs)
    \/ \E c \in Cookies, outs \in TwoOutcomeSeqs(2) : comments_page(c, outs)
    \/ \E c \in Cookies, outs \in TwoOutcomeSeqs(1) : sites_page(c, outs)
    \/ \E c \in Cookies, s \in SiteIds, o \in TwoOutcomes,
          ts \in SeqsUpTo(ThreadIds, MaxThreads) :
          \E outs \in TwoOutcomeSeqs(Len(ts)) : site_detail_page(c, s, o, ts, outs)
    \/ \E c \in Cookies : theme_customizer(c)
    \/ \E c \in Cookies, a \in {"approve", "reject"}, o \in TwoOutcomes :
          dashboard_moderate_comment(c, 1, a, o)
    \/ \E c \in Cookies, o \in TwoOutcomes : dashboard_delete_comment(c, 1, o)
    \/ \E c \in Cookies, n \in SiteNames, o \in TwoOutcomes :
          create_site(c, n, "https://a.com", o)
    \/ \E c \in Cookies, n \in SiteNames, o \in TwoOutcomes :
          dashboard_create_thread(c, n, "https://a.com", o)
    \/ \E c \in Cookies, o \in TwoOutcomes : dashboard_delete_thread(c, 1, o)
    \/ \E c \in Cookies, o \in TwoOutcomes, ts \in SeqsUpTo(ThreadIds, MaxThreads) :
          \E outs \in TwoOutcomeSeqs(Len(ts)) : export_page(c, o, ts, outs)
    \/ \E c \in Cookies, outs \in TwoOutcomeSeqs(2) : export_thread_page(c, 1, outs)
    \/ \E c \in Cookies, s \in SiteIds, o \in TwoOutcomes,
          ts \in SeqsUpTo(ThreadIds, MaxThreads) :
          \E outs \in TwoOutcomeSeqs(Len(ts)) : export_site_page(c, s, o, ts, outs)
    \/ \E c \in Cookies, f \in {"json", "csv"}, o \in TwoOutcomes :
          download_export(c, f, TRUE, TRUE, o)
    \/ \E c \in Cookies, f \in {"json", "html"}, o \in TwoOutcomes :
          download_thread_export(c, 1, f, "default", o)
    \/ \E c \in Cookies, s \in SiteIds, f \in {"json", "yaml"}, o \in TwoOutcomes :
          download_site_export(c, s, f, o)
    \/ \E c \in Cookies, o \in TwoOutcomes : comments_delete_comment(c, 1, o)
    \/ \E c \in Cookies, b \in [is_approved : {1}] \cup {Malformed},
          o \in TwoOutcomes : comments_moderate_comment(c, 1, b, o)
    \/ \E c \in Cookies, b \in {Malformed, [comment_ids |-> <<1, 2>>, is_approved |-> 1]} :
          \E outs \in TwoOutcomeSeqs(BodyLen(b)) : moderate_comments_bulk(c, b, outs)
    \/ \E c \in Cookies, b \in [url : {"https://a.com"}] \cup {Malformed},
          o \in TwoOutcomes : threads_create_thread(c, b, o)
    \/ \E c \in Cookies, o \in TwoOutcomes : threads_delete_thread(c, 1, o)

SpecGuards == Init /\ [][GuardsNext]_vars

----------------------------------------------------------------------------
(* SpecSites: sites and threads created from the dashboard, for several    *)
(* URLs and names, while time passes.                                      *)

SitesNext ==
    \/ FirstLogin(Outcome("json", 200, "alice"))
    \/ Tick
    \/ \E c \in Cookies, n \in SiteNames, u \in Urls, o \in TwoOutcomes :
          create_site(c, n, u, o)
    \/ \E c \in Cookies, n \in SiteNames, u \in Urls, o \in TwoOutcomes :
          dashboard_create_thread(c, n, u, o)

SpecSites == Init /\ [][SitesNext]_vars

----------------------------------------------------------------------------
(* SpecProxy: the JSON proxies, the health check and the downloads, over   *)
(* every kind of backend answer.                                           *)

ProxyNext ==
    \/ FirstLogin(Outcome("json", 200, "alice"))
    \/ \E c \in Cookies, o \in Outcomes : create_comment(c, NoBody, o)
    \/ \E c \in Cookies, o \in Outcomes : list_comments(c, NoBody, o)
    \/ \E c \in Cookies, i \in CommentIds, o \in Outcomes : get_comment(c, i, o)
    \/ \E c \in Cookies, i \in CommentIds, o \in Outcomes :
          comments_delete_comment(c, i, o)
    \/ \E c \in Cookies, i \in CommentIds,
          b \in [is_approved : Approvals] \cup {Malformed},
          o \in Outcomes : comments_moderate_comment(c, i, b, o)
    \/ \E c \in Cookies, b \in BulkBodies :
          \E outs \in [1..BodyLen(b) -> BulkOutcomes] :
             moderate_comments_bulk(c, b, outs)
    \/ \E c \in Cookies, b \in [url : Urls] \cup {Malformed}, o \in Outcomes :
          threads_create_thread(c, b, o)
    \/ \E c \in Cookies, o \in Outcomes : list_threads(c, NoBody, o)
    \/ \E c \in Cookies, t \in ThreadIds, o \in Outcomes : get_thread(c, t, o)
    \/ \E c \in Cookies, t \in ThreadIds, o \in Outcomes :
          threads_delete_thread(c, t, o)
    \/ \E t \in ThreadIds, o \in Outcomes : get_widget_comments(NoCookie, t, o)
    \/ \E o \in Outcomes : get_demo_thread(NoCookie, o)
    \/ \E o \in Outcomes : api_list_comments(NoCookie, NoBody, o)
    \/ \E o \in Outcomes : api_get_comment_stats(NoCookie, o)
    \/ \E o \in DefaultOutcomes : root(NoCookie, o)
    \/ \E o \in DefaultOutcomes : health(NoCookie, o)
    \/ \E c \in Cookies, f \in Formats, ic \in BOOLEAN, im \in BOOLEAN,
          o \in SomeOutcomes : download_export(c, f, ic, im, o)
    \/ \E c \in Cookies, t \in ThreadIds, f \in Formats, tp \in Templates,
          o \in SomeOutcomes : download_thread_export(c, t, f, tp, o)
    \/ \E c \in Cookies, s \in SiteIds, f \in Formats, o \in SomeOutcomes :
          download_site_export(c, s, f, o)

SpecProxy == Init /\ [][ProxyNext]_vars

----------------------------------------------------------------------------
(* Backend export API: ~/Documentos/nocodebackend-api/api/export.py        *)
(*                                                                         *)
(* A comment of a result set is [id, parent_id]; parent_id 0 stands for a  *)
(* parent_id that Python treats as false (None).  The thread and comment   *)
(* services are the environment: what they return is part of the request.  *)

NoParent == 0
NoThread == [id |-> 0, usuario_proprietario_id |-> 0]

Ids(comments) == { comments[i].id : i \in 1..Len(comments) }

EmptyReplies(comments) == [id \in Ids(comments) |-> <<>>]

RECURSIVE OrganizeReplies(_, _, _)
\* The single pass over the comments from the i-th on: a comment with a
\* parent_id is appended to the replies of its parent when comment_map has
\* the parent.  replies maps a comment id to the ids in its replies list.
OrganizeReplies(comments, i, replies) ==
    IF i > Len(comments) THEN replies
    ELSE LET c == comments[i] IN
         IF c.parent_id # NoParent /\ c.parent_id \in Ids(comments)
         THEN OrganizeReplies(comments, i + 1,
                  [replies EXCEPT ![c.parent_id] = Append(@, c.id)])
         ELSE OrganizeReplies(comments, i + 1, replies)

ParentOf(comments, id) ==
    comments[CHOOSE i \in 1..Len(comments) : comments[i].id = id].parent_id

CommentNode_one_level(comments, replies, id) ==
    [ id |-> id, parent_id |-> ParentOf(comments, id),
      replies |-> [k \in 1..Len(replies[id]) |->
                     [ id |-> replies[id][k],
                       parent_id |-> ParentOf(comments, replies[id][k]),
                       replies |-> <<>> ]] ]

RECURSIVE CommentNode(_, _, _)
\* The comment dictionary as the response serialises it: the entries of a
\* replies list are the comment dictionaries themselves, so the replies of
\* a reply are nested in it.
CommentNode(comments, replies, id) ==
    [ id |-> id, parent_id |-> ParentOf(comments, id),
      replies |-> [k \in 1..Len(replies[id]) |->
                     CommentNode(comments, replies, replies[id][k])] ]

IsTopLevel(c) == c.parent_id = NoParent

\* The filter with the test of the parent's presence in place of the test of
\* parent_id: a reply whose parent is missing stays at the top level.
ThreadTree_orphans_on_top(comments) ==
    LET replies == OrganizeReplies(comments, 1, EmptyReplies(comments))
        top == SelectSeq(comments,
                   LAMBDA c : IsTopLevel(c) \/ c.parent_id \notin Ids(comments))
    IN [k \in 1..Len(top) |-> CommentNode(comments, replies, top[k].id)]

\* thread_data["comments"] after the tree has been organised
ThreadTree(comments) ==
    LET replies == OrganizeReplies(comments, 1, EmptyReplies(comments))
        top == SelectSeq(comments, IsTopLevel)
    IN [k \in 1..Len(top) |-> CommentNode(comments, replies, top[k].id)]

RECURSIVE Flatten(_)
Flatten(seqs) == IF seqs = <<>> THEN <<>> ELSE Head(seqs) \o Flatten(Tail(seqs))

RECURSIVE render_comment(_, _)
\* What the HTML generators render for a comment: the comment, then its
\* replies one level deeper.  Kept as the sequence of [id, level] rendered.
render_comment(comment, level) ==
    <<[id |-> comment.id, level |-> level]>> \o
    Flatten([k \in 1..Len(comment.replies) |->
                render_comment(comment.replies[k], level + 1)])

generate_html(tree) ==
    Flatten([k \in 1..Len(tree) |-> render_comment(tree[k], 0)])

HTML_TEMPLATES == {"default", "neocities", "hugo", "nikola"}

ApiResponse(status, kind, media_type, body, fetched) ==
    [ status |-> status, kind |-> kind, media_type |-> media_type,
      body |-> body, fetched |-> fetched ]

ApiError(status, detail, fetched) ==
    ApiResponse(status, "error", "application/json", [detail |-> detail], fetched)

\* The ownership test with the owner left out: any existing thread passes.
ThreadOwned_any_owner(thread, user) == thread # NoThread

\* thread and thread.usuario_proprietario_id == current_user.id
ThreadOwned(thread, user) ==
    thread # NoThread /\ thread.usuario_proprietario_id = user

export_thread_data_response(q) ==
    LET thread == q.thread
        comments == q.comments
        thread_data ==
            [ thread |-> [id |-> thread.id, comment_count |-> Len(comments)],
              comments |-> ThreadTree(comments) ]
    IN IF ~ThreadOwned(thread, q.user)
       THEN ApiError(404, "Thread not found", <<>>)
       ELSE IF q.format = "html"
       THEN ApiResponse(200, "text", "text/html",
                        [ template |-> IF q.template \in HTML_TEMPLATES \ {"default"}
                                       THEN q.template ELSE "default",
                          rendered |-> generate_html(thread_data.comments) ],
                        <<thread.id>>)
       ELSE IF q.format = "yaml"
       THEN IF q.yaml
            THEN ApiResponse(200, "text", "application/yaml", thread_data,
                             <<thread.id>>)
            ELSE ApiError(400, "YAML format not available", <<thread.id>>)
       ELSE ApiResponse(200, "json", "application/json", thread_data,
                        <<thread.id>>)

export_thread_data ==
    /\ apiReq.op = "thread"
    /\ apiResp = IdleApiResp
    /\ apiResp' = export_thread_data_response(apiReq)
    /\ UNCHANGED <<apiReq, sessions, now, usec, issued, loggedOut, resp, calls>>
    /\ UNCHANGED <<created, scriptVars>>

----------------------------------------------------------------------------
(* export_user_data *)

THREAD_TITLE == "title"

comment_data(thread, comment, include_metadata) ==
    [ id |-> comment.id,
      thread_id |-> thread.id,
      thread_title |-> THREAD_TITLE,
      author_name |-> "author",
      author_email |-> IF include_metadata THEN "email" ELSE None,
      content |-> "content",
      created_at |-> "created_at",
      is_approved |-> 1,
      parent_id |-> comment.parent_id ]

\* all_comments: for each thread in turn, one entry per approved comment,
\* provided include_comments.
all_comments(threads, include_comments, include_metadata) ==
    Flatten([t \in 1..Len(threads) |->
        IF include_comments
        THEN [k \in 1..Len(threads[t].comments) |->
                 comment_data(threads[t], threads[t].comments[k], include_metadata)]
        ELSE <<>>])

\* len([c for c in all_comments if c["thread_id"] == thread.id])
comment_count(comments, thread_id) ==
    Cardinality({ i \in 1..Len(comments) : comments[i].thread_id = thread_id })

CSV_FIELDNAMES_with_parent ==
    << "id", "thread_id", "thread_title", "author_name", "content",
       "created_at", "is_approved", "parent_id" >>

CSV_FIELDNAMES ==
    << "id", "thread_id", "thread_title", "author_name", "content",
       "created_at", "is_approved" >>

\* The row DictWriter writes for a dictionary: the values of the columns,
\* in column order, as [column, value] cells.
writerow(fieldnames, row) ==
    [i \in 1..Len(fieldnames) |-> [column |-> fieldnames[i], value |-> row[fieldnames[i]]]]

\* The CSV text, as its header lines and its data rows: nothing at all is
\* written when there are no comments.
csv_content(comments) ==
    IF comments # <<>>
    THEN [ header |-> <<CSV_FIELDNAMES>>,
           rows |-> [k \in 1..Len(comments) |-> writerow(CSV_FIELDNAMES, comments[k])] ]
    ELSE [ header |-> <<>>, rows |-> <<>> ]

export_user_data_response(q) ==
    LET threads == q.threads
        comments == all_comments(threads, q.include_comments, q.include_metadata)
        fetched == [t \in 1..Len(threads) |-> threads[t].id]
        export_data ==
            [ export_info |->
                [ user_id |-> q.user, format |-> q.format,
                  total_threads |-> Len(threads),
                  total_comments |-> Len(comments) ],
              threads |->
                [t \in 1..Len(threads) |->
                    [ id |-> threads[t].id,
                      comment_count |->
                          comment_count(comments, threads[t].id) ]],
              comments |-> IF q.include_comments THEN comments ELSE <<>> ]
    IN IF q.format = "yaml"
       THEN IF q.yaml
            THEN ApiResponse(200, "text", "application/yaml", export_data, fetched)
            ELSE ApiError(500, "Export failed: 400: YAML format not available",
                          fetched)
       ELSE IF q.format = "csv"
       THEN ApiResponse(200, "text", "text/csv", csv_content(comments), fetched)
       ELSE ApiResponse(200, "json", "application/json", export_data, fetched)

export_user_data ==
    /\ apiReq.op = "user"
    /\ apiResp = IdleApiResp
    /\ apiResp' = export_user_data_response(apiReq)
    /\ UNCHANGED <<apiReq, sessions, now, usec, issued, loggedOut, resp, calls>>
    /\ UNCHANGED <<created, scriptVars>>

----------------------------------------------------------------------------
(* export_site_data *)

site_comment_data(thread, comment) ==
    [ id |-> comment.id, thread_id |-> thread.id, thread_title |-> THREAD_TITLE,
      author_name |-> "author", content |-> "content",
      created_at |-> "created_at", parent_id |-> comment.parent_id ]

RECURSIVE split_0(_)
\* title.split(" - ")[0]: what precedes the first " - " of the title.  The
\* elements " - " and " - Main Thread" of a title are the ones that hold it.
split_0(title) ==
    IF title = <<>> \/ Head(title) \in {" - ", " - Main Thread"} THEN <<>>
    ELSE <<Head(title)>> \o split_0(Tail(title))

\* site_data["site"]["site_name"], threads being the titles of the site's
\* threads as the thread service returns them
export_site_name(threads, site_id) ==
    IF threads # <<>> THEN split_0(threads[1]) ELSE site_id

export_site_data_response(q) ==
    LET threads == q.threads
        comments ==
            Flatten([t \in 1..Len(threads) |->
                [k \in 1..Len(threads[t].comments) |->
                    site_comment_data(threads[t], threads[t].comments[k])]])
        fetched == [t \in 1..Len(threads) |-> threads[t].id]
        site_data ==
            [ site |-> [ site_id |-> q.site_id,
                         total_threads |-> Len(threads),
                         total_comments |-> Len(comments) ],
              threads |->
                [t \in 1..Len(threads) |->
                    [ id |-> threads[t].id,
                      comment_count |->
                          comment_count(comments, threads[t].id) ]],
              comments |-> comments ]
    IN IF threads = <<>>
       THEN ApiError(404, "Site not found", <<>>)
       ELSE IF q.format = "yaml"
       THEN IF q.yaml
            THEN ApiResponse(200, "text", "application/yaml", site_data, fetched)
            ELSE ApiError(400, "YAML format not available", fetched)
       ELSE ApiResponse(200, "json", "application/json", site_data, fetched)

export_site_data ==
    /\ apiReq.op = "site"
    /\ apiResp = IdleApiResp
    /\ apiResp' = export_site_data_response(apiReq)
    /\ UNCHANGED <<apiReq, sessions, now, usec, issued, loggedOut, resp, calls>>
    /\ UNCHANGED <<created, scriptVars>>

----------------------------------------------------------------------------
(* SpecExport: one export request, over every result set the services can  *)
(* return within the bounds.                                               *)

ApiFormats == {"json", "yaml", "csv", "html"}

\* Ids a parent_id can hold: no parent, a comment id, or the id of a comment
\* that is not in the (approved-only) result set.
ParentIds == 0..(MaxComments + 1)

Injective(f) == \A i, j \in DOMAIN f : f[i] = f[j] => i = j

\* Result sets of a thread: comments with distinct ids, in any fetch order.
ResultSets ==
    UNION { { cs \in [1..n -> [id : 1..MaxComments, parent_id : ParentIds]] :
                Injective([i \in 1..n |-> cs[i].id]) } : n \in 0..MaxComments }

ThreadExportRequests ==
    { [ op |-> "thread", user |-> 1, format |-> "json", template |-> "default",
        yaml |-> TRUE, thread |-> t, comments |-> cs ] :
        t \in {NoThread, [id |-> 1, usuario_proprietario_id |-> 2]},
        cs \in { c \in ResultSets : Len(c) <= 1 } }
    \cup
    [ op : {"thread"}, user : {1}, format : {"json"}, template : {"default"},
      yaml : {TRUE}, thread : {[id |-> 1, usuario_proprietario_id |-> 1]},
      comments : ResultSets ]
    \cup
    [ op : {"thread"}, user : {1}, format : {"html", "yaml"},
      template : {"default", "nikola", "other"}, yaml : BOOLEAN,
      thread : {[id |-> 1, usuario_proprietario_id |-> 1]},
      comments : { cs \in ResultSets : Len(cs) <= 2 } ]

\* What the comment service returns for a thread of the user-data export
UserThreadComments(t) ==
    LET c1 == [id |-> 10 * t + 1, parent_id |-> NoParent]
        reply == [id |-> 10 * t + 2, parent_id |-> 10 * t + 1]
        c2 == [id |-> 10 * t + 2, parent_id |-> NoParent]
    IN { <<>>, <<c1>>, <<c1, reply>>, <<c1, c2>> }

UserThreads ==
    UNION { { ts \in [1..n -> UNION { [id : {t}, comments : UserThreadComments(t)] :
                                        t \in 1..MaxUserThreads }] :
                Injective([i \in 1..n |-> ts[i].id]) } : n \in 0..MaxUserThreads }

UserExportRequests ==
    [ op : {"user"}, user : {1}, format : ApiFormats,
      include_comments : BOOLEAN, include_metadata : BOOLEAN, yaml : BOOLEAN,
      threads : UserThreads ]

SiteExportRequests ==
    [ op : {"site"}, user : {1}, site_id : {"site-1"}, format : {"json", "yaml"},
      yaml : BOOLEAN, threads : UserThreads ]

InitExport ==
    /\ sessions = <<>>
    /\ now = 0
    /\ usec = 0
    /\ issued = <<>>
    /\ loggedOut = {}
    /\ resp = BaseResp("none", NoCookie, NotApplicable)
    /\ calls = <<>>
    /\ apiReq \in ThreadExportRequests \cup UserExportRequests
                 \cup SiteExportRequests
    /\ apiResp = IdleApiResp
    /\ created = {}
    /\ ScriptsIdle

ExportNext == export_thread_data \/ export_user_data \/ export_site_data

SpecExport == InitExport /\ [][ExportNext]_vars

----------------------------------------------------------------------------
(* What the dashboard's backend_request sees of an export API response *)

AsOutcome(r) ==
    IF r.kind = "json" THEN Outcome("json", r.status, "alice")
    ELSE IF r.kind = "text" THEN TextOutcome
    ELSE Outcome("status", r.status, "")

OneThread == <<[id |-> 1, comments |-> <<[id |-> 11, parent_id |-> NoParent]>>]>>

----------------------------------------------------------------------------
(* utils/helpers.py: calculate_stats and group_threads_by_site             *)

MaxStatComments == 3
MaxGroupThreads == 2

\* c.get('is_approved') == v: a comment without the key compares unequal.
IsApproved(c, v) == "is_approved" \in DOMAIN c /\ c.is_approved = v

calculate_stats_falsy_is_pending(comments) ==
    [ total |-> Len(comments),
      approved |-> Len(SelectSeq(comments, LAMBDA c : IsApproved(c, 1))),
      pending |-> Len(SelectSeq(comments, LAMBDA c : ~IsApproved(c, 1) /\ ~IsApproved(c, 2)
                                                     /\ ~IsApproved(c, 3))),
      rejected |-> Len(SelectSeq(comments, LAMBDA c : IsApproved(c, 2))) ]

calculate_stats(comments) ==
    [ total |-> Len(comments),
      approved |-> Len(SelectSeq(comments, LAMBDA c : IsApproved(c, 1))),
      pending |-> Len(SelectSeq(comments, LAMBDA c : IsApproved(c, 0))),
      rejected |-> Len(SelectSeq(comments, LAMBDA c : IsApproved(c, 2))) ]

\* ' - Main Thread', one element of a title
MAIN_THREAD == " - Main Thread"

RECURSIVE replace(_, _)
\* str.replace(old, ''): every occurrence of old is removed, wherever it is.
replace(title, old) ==
    IF title = <<>> THEN <<>>
    ELSE IF Head(title) = old THEN replace(Tail(title), old)
    ELSE <<Head(title)>> \o replace(Tail(title), old)

\* Index of the group of site_id in sites, 0 when there is none.
SiteIndex(sites, site_id) ==
    IF \E k \in 1..Len(sites) : sites[k].site_id = site_id
    THEN CHOOSE k \in 1..Len(sites) : sites[k].site_id = site_id
    ELSE 0

RECURSIVE GroupFrom(_, _, _)
\* The loop from the i-th thread on.  sites is the dictionary as its values
\* in insertion order.
GroupFrom(threads, i, sites) ==
    IF i > Len(threads) THEN sites
    ELSE LET thread == threads[i]
             site_id == thread.external_page_id
             known == SiteIndex(sites, site_id)
             sites1 == IF known = 0
                       THEN Append(sites,
                                [ site_id |-> site_id,
                                  site_name |-> replace(thread.title, MAIN_THREAD),
                                  site_url |-> thread.url,
                                  threads |-> <<>>,
                                  total_comments |-> 0 ])
                       ELSE sites
             k == IF known = 0 THEN Len(sites1) ELSE known
         IN GroupFrom(threads, i + 1,
                      [sites1 EXCEPT ![k].threads = Append(@, thread)])

group_threads_by_site(threads) == GroupFrom(threads, 1, <<>>)

\* Comments as calculate_stats reads them: is_approved 0..3, or no such key
StatComments ==
    [id : {1}, is_approved : 0..3] \cup [id : {1}]

Titles ==
    { <<"Blog">>, <<"Blog", MAIN_THREAD>>, <<"Blog", MAIN_THREAD, "two">>,
      <<"Blog", MAIN_THREAD, MAIN_THREAD>> }

HelperThreads ==
    [external_page_id : {"s1", "s2"}, title : Titles, url : {"u1", "u2"}]

HelperRequests ==
    UNION { [fn : {"calculate_stats"}, arg : [1..n -> StatComments]] :
              n \in 0..MaxStatComments }
    \cup
    UNION { [fn : {"group_threads_by_site"}, arg : [1..n -> HelperThreads]] :
              n \in 0..MaxGroupThreads }

WebIdle ==
    /\ sessions = <<>>
    /\ now = 0
    /\ usec = 0
    /\ issued = <<>>
    /\ loggedOut = {}
    /\ resp = BaseResp("none", NoCookie, NotApplicable)
    /\ calls = <<>>
    /\ apiReq = IdleApiReq
    /\ apiResp = IdleApiResp
    /\ created = {}
    /\ smoke = Idle
    /\ inflight = NoTasks

InitHelpers ==
    /\ WebIdle
    /\ helperReq \in HelperRequests
    /\ helperResp = Idle
    /\ client = Idle /\ click = Idle /\ widget = Idle
    /\ runner = Idle /\ enh = Idle /\ harness = Idle

webVars == <<sessions, now, usec, issued, loggedOut, resp, calls, apiReq, apiResp, created,
             smoke, inflight>>

ApplyStats ==
    /\ helperReq.fn = "calculate_stats"
    /\ helperResp = Idle
    /\ helperResp' = [pc |-> "returned", value |-> calculate_stats(helperReq.arg)]
    /\ UNCHANGED <<webVars, helperReq, client, click, widget, runner, enh, harness>>

ApplyGroup ==
    /\ helperReq.fn = "group_threads_by_site"
    /\ helperResp = Idle
    /\ helperResp' = [pc |-> "returned", value |-> group_threads_by_site(helperReq.arg)]
    /\ UNCHANGED <<webVars, helperReq, client, click, widget, runner, enh, harness>>

HelpersNext == ApplyStats \/ ApplyGroup

SpecHelpers == InitHelpers /\ [][HelpersNext]_vars

----------------------------------------------------------------------------
(* utils/api_client.py: FrontendAPIClient                                  *)

\* The verb and endpoint each client method hands to _request.
ClientMethods ==
    [ login |-> <<"POST", "/auth/login">>,
      register |-> <<"POST", "/auth/register">>,
      get_threads |-> <<"GET", "/threads">>,
      create_thread |-> <<"POST", "/threads">>,
      get_thread |-> <<"GET", "/threads/1">>,
      delete_thread |-> <<"DELETE", "/threads/1">>,
      get_comments |-> <<"GET", "/comments">>,
      create_comment |-> <<"POST", "/comments">>,
      moderate_comment |-> <<"PUT", "/comments/1/moderate">>,
      delete_comment |-> <<"DELETE", "/comments/1">>,
      bulk_moderate_comments |-> <<"POST", "/moderate">>,
      get_widget_comments |-> <<"GET", "/widget/comments/1">>,
      get_comments_api |-> <<"GET", "/api/comments">>,
      get_comment_stats |-> <<"GET", "/api/comments/stats">>,
      health_check |-> <<"GET", "/health">> ]

\* Methods that unwrap the body: result if it is a list else result.get('data', [])
ListMethods == {"get_threads", "get_comments"}

EmptyList == [type |-> "list", items |-> "none"]

\* JSON documents a 2xx answer can hold: a list, an object with or without
\* 'data', null, a string.
JsonBodies ==
    { [type |-> "list", items |-> "some"],
      [type |-> "dict", data |-> [type |-> "list", items |-> "some"]],
      [type |-> "dict"],
      [type |-> "null"],
      [type |-> "str"] }

\* What the HTTP layer does with the one request: a response with a status
\* and a body (JSON or other text), or a failure before any response.
ClientAnswers ==
    [kind : {"json"}, status : {200, 201}, body : JsonBodies]
    \cup [kind : {"text"}, status : {200, 404, 500}, text : {"Not Found detail"}]
    \cup [kind : {"transport"}, message : {"connection refused", "timed out"}]

ClientCalls == [method : DOMAIN ClientMethods, answer : ClientAnswers]

Returned(value) == [kind |-> "return", value |-> value]
Raised(type, message) == [kind |-> "raise", type |-> type, message |-> message]

\* raise_for_status() passes on 2xx
is_success(status) == status >= 200 /\ status <= 299

\* _request after the HTTP call: the parsed body, or Exception with one of
\* two messages.
_request(answer) ==
    IF answer.kind = "transport"
    THEN Raised("Exception", <<"Request failed: ", answer.message>>)
    ELSE IF ~is_success(answer.status)
    THEN Raised("Exception", <<"API Error ", answer.status, answer.text>>)
    ELSE IF answer.kind = "json"
    THEN Returned(answer.body)
    ELSE Raised("Exception", <<"Request failed: ", "JSONDecodeError">>)

\* What the method does with _request's result.
ClientResult(method, result) ==
    IF result.kind = "raise" \/ method \notin ListMethods THEN result
    ELSE IF result.value.type = "list" THEN result
    ELSE IF result.value.type = "dict"
    THEN Returned(IF "data" \in DOMAIN result.value THEN result.value.data ELSE EmptyList)
    ELSE Raised("AttributeError", <<"object has no attribute 'get'">>)

InitClient ==
    /\ WebIdle
    /\ helperReq = Idle /\ helperResp = Idle
    /\ click = Idle /\ widget = Idle
    /\ runner = Idle /\ enh = Idle /\ harness = Idle
    /\ \E c \in ClientCalls :
          client = [pc |-> "called", method |-> c.method, answer |-> c.answer,
                    requests |-> <<>>]

otherThanClient == <<webVars, helperReq, helperResp, click, widget, runner, enh, harness>>

\* The method builds its arguments and awaits _request: one HTTP request.
ClientRequest ==
    /\ client.pc = "called"
    /\ client' = [pc |-> "requested", method |-> client.method, answer |-> client.answer,
                  requests |-> Append(client.requests, ClientMethods[client.method]),
                  result |-> _request(client.answer)]
    /\ UNCHANGED otherThanClient

\* The method returns or raises to its caller.
ClientReturn ==
    /\ client.pc = "requested"
    /\ client' = [client EXCEPT !.pc = "done",
                                !.result = ClientResult(client.method, client.result)]
    /\ UNCHANGED otherThanClient

ClientNext == ClientRequest \/ ClientReturn

SpecClient == InitClient /\ [][ClientNext]_vars

----------------------------------------------------------------------------
(* enhanced_widget_automation.py: safe_click                               *)

max_retries == 3

\* Time is counted in 1/Unit of a second; random.uniform(0, 1) draws one of
\* 0/Unit .. Unit/Unit.
Unit == 4

RECURSIVE Pow2(_)
Pow2(n) == IF n = 0 THEN 1 ELSE 2 * Pow2(n - 1)

wait_time_doubled(attempt, jitter) == Unit * Pow2(attempt + 1) + jitter

\* (2 ** attempt) + random.uniform(0, 1)
wait_time(attempt, jitter) == Unit * Pow2(attempt) + jitter

\* 0 <= x <= screen_width and 0 <= y <= screen_height
Coordinates == {"inside", "outside"}

InitClick ==
    /\ WebIdle
    /\ helperReq = Idle /\ helperResp = Idle
    /\ client = Idle /\ widget = Idle
    /\ runner = Idle /\ enh = Idle /\ harness = Idle
    /\ \E c \in Coordinates :
          click = [pc |-> "try", coordinates |-> c, attempt |-> 0,
                   tried |-> <<>>, slept |-> <<>>]

otherThanClick == <<webVars, helperReq, helperResp, client, widget, runner, enh, harness>>

\* The try block of one pass of the loop: the click succeeds and safe_click
\* returns True, or an Exception is raised (always, for coordinates outside
\* the screen).
ClickAttempt(outcome) ==
    /\ click.pc = "try"
    /\ click.attempt < max_retries
    /\ click.coordinates = "outside" => outcome = "failed"
    /\ click' = [click EXCEPT !.tried = Append(@, outcome),
                              !.pc = IF outcome = "clicked" THEN "returned" ELSE "except"]
    /\ UNCHANGED otherThanClick

\* The except block when attempt < max_retries - 1: sleep, then the next pass.
ClickBackoff(jitter) ==
    /\ click.pc = "except"
    /\ click.attempt < max_retries - 1
    /\ click' = [click EXCEPT !.slept = Append(@, wait_time(click.attempt, jitter)),
                              !.attempt = @ + 1,
                              !.pc = "try"]
    /\ UNCHANGED otherThanClick

\* The except block of the last pass: an error is logged, nothing is slept.
ClickGiveUp ==
    /\ click.pc = "except"
    /\ ~(click.attempt < max_retries - 1)
    /\ click' = [click EXCEPT !.attempt = @ + 1, !.pc = "try"]
    /\ UNCHANGED otherThanClick

\* The loop is exhausted: raise AutomationError.
ClickRaise ==
    /\ click.pc = "try"
    /\ ~(click.attempt < max_retries)
    /\ click' = [click EXCEPT !.pc = "raised"]
    /\ UNCHANGED otherThanClick

ClickNext ==
    \/ \E outcome \in {"clicked", "failed"} : ClickAttempt(outcome)
    \/ \E jitter \in 0..Unit : ClickBackoff(jitter)
    \/ ClickGiveUp
    \/ ClickRaise

\* safe_click is straight-line code around blocking calls that return: a
\* step that is possible is eventually taken.
SpecClick == InitClick /\ [][ClickNext]_vars /\ WF_vars(ClickNext)

----------------------------------------------------------------------------
(* widget_commenting_automation.py: run_automation                         *)

\* self.test_comments[:5]
NumComments == 5

\* The pyautogui calls of fill_comment_form and submit_comment for one
\* comment, in order.
FormSteps ==
    << [fn |-> "fill_comment_form", call |-> "click name_field"],
       [fn |-> "fill_comment_form", call |-> "type name"],
       [fn |-> "fill_comment_form", call |-> "click email_field"],
       [fn |-> "fill_comment_form", call |-> "type email"],
       [fn |-> "fill_comment_form", call |-> "click content_field"],
       [fn |-> "fill_comment_form", call |-> "type content"],
       [fn |-> "submit_comment", call |-> "click submit_button"] >>

\* logger.error of the except block of fill_comment_form / submit_comment
FormError(fn) ==
    IF fn = "fill_comment_form" THEN "Error filling comment form"
    ELSE "Error submitting comment"

InitWidget ==
    /\ WebIdle
    /\ helperReq = Idle /\ helperResp = Idle
    /\ client = Idle /\ click = Idle
    /\ runner = Idle /\ enh = Idle /\ harness = Idle
    /\ widget = [pc |-> "start", comment |-> 0, step |-> 0, attempted |-> {},
                 failed |-> 0, log |-> <<>>]

otherThanWidget == <<webVars, helperReq, helperResp, client, click, runner, enh, harness>>

\* Steps 1 to 4: without pyautogui the method returns at once; otherwise the
\* browser is opened and the widget located, or an Exception is raised.
WidgetOpen(pyautogui_available, located) ==
    /\ widget.pc = "start"
    /\ widget' =
          IF ~pyautogui_available
          THEN [widget EXCEPT !.pc = "returned",
                              !.log = Append(@, "PyAutoGUI not available")]
          ELSE IF ~located
          THEN [widget EXCEPT !.pc = "except"]
          ELSE [widget EXCEPT !.pc = "comment", !.comment = 1, !.step = 1]
    /\ UNCHANGED otherThanWidget

\* One pyautogui call of fill_comment_form or submit_comment for the current
\* comment.  When it raises, the function's except block logs and re-raises.
WidgetFormStep(raises) ==
    /\ widget.pc = "comment"
    /\ LET s == FormSteps[widget.step]
           w == [widget EXCEPT !.attempted = @ \cup {widget.comment}]
       IN widget' =
             IF raises
             THEN [w EXCEPT !.pc = "reraised", !.failed = widget.comment,
                            !.log = Append(@, FormError(s.fn))]
             ELSE IF widget.step < Len(FormSteps)
             THEN [w EXCEPT !.step = @ + 1]
             ELSE [w EXCEPT !.pc = "verify"]
    /\ UNCHANGED otherThanWidget

\* verify_comment, the sleep, and the next pass of the loop or its end.
WidgetVerify ==
    /\ widget.pc = "verify"
    /\ widget' =
          IF widget.comment < NumComments
          THEN [widget EXCEPT !.pc = "comment", !.comment = @ + 1, !.step = 1]
          ELSE [widget EXCEPT !.pc = "returned", !.log = Append(@, "completed successfully")]
    /\ UNCHANGED otherThanWidget

\* The exception leaves the for loop: nothing in the loop body catches it.
WidgetPropagate ==
    /\ widget.pc = "reraised"
    /\ widget' = [widget EXCEPT !.pc = "except"]
    /\ UNCHANGED otherThanWidget

\* except Exception of run_automation: log, screenshot, raise.
WidgetFail ==
    /\ widget.pc = "except"
    /\ widget' = [widget EXCEPT !.pc = "raised", !.log = Append(@, "Automation failed")]
    /\ UNCHANGED otherThanWidget

WidgetNext ==
    \/ \E a, l \in BOOLEAN : WidgetOpen(a, l)
    \/ \E raises \in BOOLEAN : WidgetFormStep(raises)
    \/ WidgetVerify
    \/ WidgetPropagate
    \/ WidgetFail

SpecWidget == InitWidget /\ [][WidgetNext]_vars

----------------------------------------------------------------------------
(* headless_pyautogui.py: HeadlessPyAutoGUI                                *)

\* What sys.argv names: no script, a path that does not exist, a script
\* whose main() returns, one without main(), one that raises an Exception,
\* one that calls sys.exit().
Scripts == {"none", "missing", "returns", "no_main", "raises", "exits"}

\* How a block ends: by returning a value, or with an exception on its way
\* up.
Returns(value) == [kind |-> "return", value |-> value]
Raises(exception) == [kind |-> "raise", exception |-> exception]

InitRunner ==
    /\ WebIdle
    /\ helperReq = Idle /\ helperResp = Idle
    /\ client = Idle /\ click = Idle /\ widget = Idle
    /\ enh = Idle /\ harness = Idle
    /\ \E d \in BOOLEAN, s \in Scripts :
          runner = [pc |-> "setup_xvfb", DISPLAY |-> d, script |-> s,
                    xvfb_process |-> "none", pending |-> Returns(TRUE)]

otherThanRunner == <<webVars, helperReq, helperResp, client, click, widget, enh, harness>>

\* setup_xvfb up to and including Popen.
RunnerPopen(started) ==
    /\ runner.pc = "setup_xvfb"
    /\ runner' =
          IF runner.DISPLAY
          THEN [runner EXCEPT !.pc = "try"]
          ELSE IF started
          THEN [runner EXCEPT !.pc = "sleep", !.xvfb_process = "running",
                              !.DISPLAY = TRUE]
          ELSE [runner EXCEPT !.pc = "run", !.pending = Returns(FALSE)]
    /\ UNCHANGED otherThanRunner

\* time.sleep(2) after Popen.  A KeyboardInterrupt is not an Exception: it
\* leaves setup_xvfb and run_script, which has not entered its try yet.
RunnerSleep(interrupted) ==
    /\ runner.pc = "sleep"
    /\ runner' =
          IF interrupted
          THEN [runner EXCEPT !.pc = "run", !.pending = Raises("KeyboardInterrupt")]
          ELSE [runner EXCEPT !.pc = "try"]
    /\ UNCHANGED otherThanRunner

\* What the try block of run_script ends with.
ScriptOutcome(script, interrupted) ==
    IF script = "none" THEN Returns(TRUE)
    ELSE IF script = "missing" THEN Returns(FALSE)
    ELSE IF interrupted THEN Raises("KeyboardInterrupt")
    ELSE IF script = "raises" THEN Returns(FALSE)
    ELSE IF script = "exits" THEN Raises("SystemExit")
    ELSE Returns(TRUE)

\* The try block of run_script, with its except Exception clause.
RunnerScript(interrupted) ==
    /\ runner.pc = "try"
    /\ runner' = [runner EXCEPT !.pc = "finally",
                                !.pending = ScriptOutcome(runner.script, interrupted)]
    /\ UNCHANGED otherThanRunner

\* finally: cleanup(), up to its try.  An interrupt here leaves cleanup.
RunnerCleanup(interrupted) ==
    /\ runner.pc = "finally"
    /\ runner' =
          IF runner.xvfb_process = "none"
          THEN [runner EXCEPT !.pc = "run"]
          ELSE IF interrupted
          THEN [runner EXCEPT !.pc = "run", !.pending = Raises("KeyboardInterrupt")]
          ELSE [runner EXCEPT !.pc = "terminate"]
    /\ UNCHANGED otherThanRunner

\* terminate() and wait(timeout=5); on TimeoutExpired, or anything else
\* raised meanwhile, kill().
RunnerTerminate(waited) ==
    /\ runner.pc = "terminate"
    /\ runner' = [runner EXCEPT !.pc = "run",
                                !.xvfb_process = IF waited = "exited" THEN "terminated"
                                                 ELSE "killed"]
    /\ UNCHANGED otherThanRunner

\* run(): the value of run_script, False on KeyboardInterrupt or Exception;
\* SystemExit passes through.
RunnerRun ==
    /\ runner.pc = "run"
    /\ runner' =
          IF runner.pending.kind = "return"
          THEN [runner EXCEPT !.pc = "returned"]
          ELSE IF runner.pending.exception = "SystemExit"
          THEN [runner EXCEPT !.pc = "exited"]
          ELSE [runner EXCEPT !.pc = "returned", !.pending = Returns(FALSE)]
    /\ UNCHANGED otherThanRunner

RunnerNext ==
    \/ \E started \in BOOLEAN : RunnerPopen(started)
    \/ \E interrupted \in BOOLEAN : RunnerSleep(interrupted)
    \/ \E interrupted \in BOOLEAN : RunnerScript(interrupted)
    \/ \E interrupted \in BOOLEAN : RunnerCleanup(interrupted)
    \/ \E waited \in {"exited", "TimeoutExpired", "KeyboardInterrupt"} :
          RunnerTerminate(waited)
    \/ RunnerRun

SpecRunner == InitRunner /\ [][RunnerNext]_vars

----------------------------------------------------------------------------
(* enhanced_widget_automation.py: run_enhanced_automation                  *)

\* len(self.test_comments)
NumEnhancedComments == 3

\* The calls of one pass of the comment loop, in order, and the kind of GUI
\* interaction each one is.
CommentSteps ==
    << [call |-> "safe_click name_field", gui |-> "click"],
       [call |-> "safe_type_text name", gui |-> "keystroke"],
       [call |-> "safe_click email_field", gui |-> "click"],
       [call |-> "safe_type_text email", gui |-> "keystroke"],
       [call |-> "safe_click content_field", gui |-> "click"],
       [call |-> "safe_type_text content", gui |-> "keystroke"],
       [call |-> "safe_click submit_button", gui |-> "click"],
       [call |-> "take_screenshot comment_submitted", gui |-> "screenshot"] >>

\* self.pyautogui_available = PYAUTOGUI_AVAILABLE and not simulate_only
pyautogui_available(importable, simulate_only) == importable /\ ~simulate_only

\* A call on the module-level pyautogui: the library itself when its import
\* succeeded, the mock otherwise.  simulate_only plays no part in it.
PyAutoGUI(importable, gui) == IF importable THEN {gui} ELSE {}

InitEnhanced ==
    /\ WebIdle
    /\ helperReq = Idle /\ helperResp = Idle
    /\ client = Idle /\ click = Idle /\ widget = Idle
    /\ runner = Idle /\ harness = Idle
    /\ \E s, i, b \in BOOLEAN :
          enh = [pc |-> "verify", simulate_only |-> s, importable |-> i,
                 browser_installed |-> b, comment |-> 0, step |-> 0,
                 real |-> {}, submitted |-> {}]

otherThanEnh == <<webVars, helperReq, helperResp, client, click, widget, runner, harness>>

\* Step 1: verify_display_connection() is called in every mode.  Without
\* self.pyautogui_available it raises before touching the display, and the
\* error is passed over in simulation mode; otherwise it asks the display
\* for its size.
EnhVerify(display_answers) ==
    /\ enh.pc = "verify"
    /\ enh' =
          IF ~pyautogui_available(enh.importable, enh.simulate_only)
          THEN IF enh.simulate_only
               THEN [enh EXCEPT !.pc = "open_browser"]
               ELSE [enh EXCEPT !.pc = "except"]
          ELSE IF display_answers
          THEN [enh EXCEPT !.pc = "open_browser", !.real = @ \cup {"display"}]
          ELSE [enh EXCEPT !.pc = "except", !.real = @ \cup {"display"}]
    /\ UNCHANGED otherThanEnh

\* Step 2: open_browser_with_error_handling starts the first browser found
\* with subprocess.Popen, then two screenshots are taken.
EnhOpenBrowser ==
    /\ enh.pc = "open_browser"
    /\ enh' =
          IF enh.browser_installed
          THEN [enh EXCEPT !.pc = "comment", !.comment = 1, !.step = 1,
                           !.real = @ \cup {"browser"}
                                      \cup PyAutoGUI(enh.importable, "screenshot")]
          ELSE [enh EXCEPT !.pc = "except"]
    /\ UNCHANGED otherThanEnh

\* The next pass of the comment loop, or the end of the loop.
NextComment(e) ==
    IF e.comment < NumEnhancedComments
    THEN [e EXCEPT !.pc = "comment", !.comment = @ + 1, !.step = 1]
    ELSE [e EXCEPT !.pc = "completed"]

\* One call of the loop body.  When it raises, the loop's except block takes
\* a screenshot and goes on with the next comment.
EnhCommentStep(raises) ==
    /\ enh.pc = "comment"
    /\ LET s == CommentSteps[enh.step]
           e == [enh EXCEPT !.real = @ \cup PyAutoGUI(enh.importable, s.gui)]
       IN enh' =
             IF raises /\ s.gui # "screenshot"
             THEN NextComment([e EXCEPT !.real = @ \cup PyAutoGUI(enh.importable, "screenshot")])
             ELSE IF enh.step < Len(CommentSteps)
             THEN [e EXCEPT !.step = @ + 1]
             ELSE NextComment([e EXCEPT !.submitted = @ \cup {enh.comment}])
    /\ UNCHANGED otherThanEnh

\* The final screenshot; the method returns.
EnhComplete ==
    /\ enh.pc = "completed"
    /\ enh' = [enh EXCEPT !.pc = "returned",
                          !.real = @ \cup PyAutoGUI(enh.importable, "screenshot")]
    /\ UNCHANGED otherThanEnh

\* except Exception: a screenshot, then AutomationError.
EnhFail ==
    /\ enh.pc = "except"
    /\ enh' = [enh EXCEPT !.pc = "raised",
                          !.real = @ \cup PyAutoGUI(enh.importable, "screenshot")]
    /\ UNCHANGED otherThanEnh

EnhancedNext ==
    \/ \E display_answers \in BOOLEAN : EnhVerify(display_answers)
    \/ EnhOpenBrowser
    \/ \E raises \in BOOLEAN : EnhCommentStep(raises)
    \/ EnhComplete
    \/ EnhFail

SpecEnhanced == InitEnhanced /\ [][EnhancedNext]_vars

----------------------------------------------------------------------------
(* frontend_autotester.py: run_full_test and main                          *)

\* The test sequence of run_full_test.
tests ==
    << "Landing Page", "User Registration", "Dashboard Overview",
       "Sites Management", "Theme Customizer" >>

\* How a test function can end: every one returns True or raises;
\* test_sites_management also returns False.
TestOutcomes(test_name) ==
    IF test_name = "Sites Management" THEN {"True", "False", "raises"}
    ELSE {"True", "raises"}

\* The loop body with a raising test left out of the results.
record_result_skip_raised(results, test_name, outcome) ==
    IF outcome = "raises" THEN results
    ELSE Append(results, [test_name |-> test_name, result |-> outcome = "True"])

\* results.append((test_name, result)), or (test_name, False) in the except
\* block.
record_result(results, test_name, outcome) ==
    Append(results, [test_name |-> test_name, result |-> outcome = "True"])

\* passed == total
AllPassed(results) == \A i \in 1..Len(results) : results[i].result

InitHarness ==
    /\ WebIdle
    /\ helperReq = Idle /\ helperResp = Idle
    /\ client = Idle /\ click = Idle /\ widget = Idle
    /\ runner = Idle /\ enh = Idle
    /\ harness = [pc |-> "setup_driver", driver |-> "None", setups |-> 0,
                  ran |-> <<>>, results |-> <<>>, success |-> FALSE,
                  exit_code |-> -1]

otherThanHarness == <<webVars, helperReq, helperResp, client, click, widget, runner, enh>>

\* self.setup_driver(): the browser starts, or webdriver.Chrome raises and
\* the outer except returns False.
HarnessSetup(started) ==
    /\ harness.pc = "setup_driver"
    /\ harness' =
          IF started
          THEN [harness EXCEPT !.pc = "tests", !.driver = "open", !.setups = @ + 1]
          ELSE [harness EXCEPT !.pc = "finally", !.setups = @ + 1]
    /\ UNCHANGED otherThanHarness

\* One pass of the loop over tests.
HarnessTest(outcome) ==
    /\ harness.pc = "tests"
    /\ Len(harness.ran) < Len(tests)
    /\ LET test_name == tests[Len(harness.ran) + 1]
       IN /\ outcome \in TestOutcomes(test_name)
          /\ harness' = [harness EXCEPT
                            !.ran = Append(@, [test_name |-> test_name, outcome |-> outcome]),
                            !.results = record_result(@, test_name, outcome)]
    /\ UNCHANGED otherThanHarness

\* The summary and the return value.
HarnessSummary ==
    /\ harness.pc = "tests"
    /\ Len(harness.ran) = Len(tests)
    /\ harness' = [harness EXCEPT !.pc = "finally",
                                  !.success = AllPassed(harness.results)]
    /\ UNCHANGED otherThanHarness

\* finally: teardown_driver().  When driver.quit() raises, the exception
\* replaces the return value and leaves main.
HarnessTeardown(quit_raises) ==
    /\ harness.pc = "finally"
    /\ harness' =
          IF harness.driver = "None"
          THEN [harness EXCEPT !.pc = "exit"]
          ELSE IF quit_raises
          THEN [harness EXCEPT !.pc = "exit", !.driver = "quit raised",
                               !.success = FALSE]
          ELSE [harness EXCEPT !.pc = "exit", !.driver = "quit"]
    /\ UNCHANGED otherThanHarness

\* exit(0 if success else 1); an uncaught exception exits with 1 as well.
HarnessExit ==
    /\ harness.pc = "exit"
    /\ harness' = [harness EXCEPT !.pc = "exited",
                                  !.exit_code = IF harness.success THEN 0 ELSE 1]
    /\ UNCHANGED otherThanHarness

HarnessNext ==
    \/ \E started \in BOOLEAN : HarnessSetup(started)
    \/ \E outcome \in {"True", "False", "raises"} : HarnessTest(outcome)
    \/ HarnessSummary
    \/ \E quit_raises \in BOOLEAN : HarnessTeardown(quit_raises)
    \/ HarnessExit

SpecHarness == InitHarness /\ [][HarnessNext]_vars

----------------------------------------------------------------------------
(* final_autotester.py: run_tests                                          *)

\* The steps of run_tests after the thread exists, in program order, each
\* with the request it makes.
FullSteps ==
    << "create root comment", "create reply", "create reply to reply",
       "create level 4 reply", "update comment", "read comments", "read threads" >>

\* What one request can do: answer 200/201 with the JSON the step reads,
\* answer another status, or fail in requests (ConnectionError, Timeout),
\* which none of the test functions catches.
SmokeAnswers == {"success", "status", "raises"}

appVars == <<sessions, now, usec, issued, loggedOut, resp, calls, apiReq, apiResp, created>>

otherThanSmoke ==
    <<appVars, inflight, helperReq, helperResp, client, click, widget, runner, enh, harness>>

InitSmoke ==
    /\ sessions = <<>> /\ now = 0 /\ usec = 0 /\ issued = <<>> /\ loggedOut = {}
    /\ resp = BaseResp("none", NoCookie, NotApplicable)
    /\ calls = <<>>
    /\ apiReq = IdleApiReq /\ apiResp = IdleApiResp
    /\ created = {}
    /\ inflight = NoTasks
    /\ helperReq = Idle /\ helperResp = Idle
    /\ client = Idle /\ click = Idle /\ widget = Idle
    /\ runner = Idle /\ enh = Idle /\ harness = Idle
    /\ \E mode \in {"basic", "full"} :
          smoke = [pc |-> "create user", mode |-> mode, requests |-> <<>>,
                   failed |-> {}, comment_id |-> FALSE]

\* One request was made and answered; an exception of requests leaves
\* run_tests at once.
Requested(s, answer) ==
    [s EXCEPT !.requests = Append(@, s.pc),
              !.failed = IF answer = "success" THEN @ ELSE @ \cup {s.pc},
              !.pc = IF answer = "raises" THEN "crashed" ELSE @]

\* Test 1: test_create_user(), then the two early returns.
SmokeCreateUser(answer) ==
    /\ smoke.pc = "create user"
    /\ LET s == Requested(smoke, answer)
       IN smoke' =
             IF answer = "raises" THEN s
             ELSE IF answer = "status" \/ smoke.mode = "basic"
             THEN [s EXCEPT !.pc = "returned"]
             ELSE [s EXCEPT !.pc = "create thread"]
    /\ UNCHANGED otherThanSmoke

\* Test 2: test_create_thread(user_id), then the early return.
SmokeCreateThread(answer) ==
    /\ smoke.pc = "create thread"
    /\ LET s == Requested(smoke, answer)
       IN smoke' =
             IF answer = "raises" THEN s
             ELSE IF answer = "status" THEN [s EXCEPT !.pc = "returned"]
             ELSE [s EXCEPT !.pc = FullSteps[1]]
    /\ UNCHANGED otherThanSmoke

\* The step after the k-th of FullSteps.
AfterStep(k) == IF k < Len(FullSteps) THEN FullSteps[k + 1] ELSE "returned"

\* Tests 3 to 9.  The update is made only `if comment_id:`.
SmokeStep(k, answer) ==
    /\ smoke.pc = FullSteps[k]
    /\ smoke' =
          IF smoke.pc = "update comment" /\ ~smoke.comment_id
          THEN [smoke EXCEPT !.pc = AfterStep(k)]
          ELSE LET s == Requested(smoke, answer)
               IN IF answer = "raises" THEN s
                  ELSE [s EXCEPT !.pc = AfterStep(k),
                                 !.comment_id = IF k = 1 THEN answer = "success" ELSE @]
    /\ UNCHANGED otherThanSmoke

SmokeNext ==
    \/ \E answer \in SmokeAnswers : SmokeCreateUser(answer)
    \/ \E answer \in SmokeAnswers : SmokeCreateThread(answer)
    \/ \E k \in 1..Len(FullSteps), answer \in SmokeAnswers : SmokeStep(k, answer)

SpecSmoke == InitSmoke /\ [][SmokeNext]_vars

----------------------------------------------------------------------------
(* The web application on its event loop: handlers run from one await to   *)
(* the next, and the loop turns to another task only at an await.          *)

MaxTasks == 2

\* ids of a bulk moderation request
BulkSize == 2

\* The handlers followed step by step, and the awaits of each one's body:
\* the backend call of a moderation; the request body and then one backend
\* call per id of a bulk moderation.
AsyncRoutes ==
    [ logout |-> 0, moderate_comment |-> 1, moderate_comments_bulk |-> 1 + BulkSize ]

\* The session of the one login that precedes the requests.
FirstCookie == [email |-> ValidEmail, stamp |-> [h |-> 0, u |-> 0]]

\* Positions of a handler at which the event loop can turn to another task
\* once the handler is reached by it: get_current_user and logout have no
\* await between their first and last line.
SuspensionPoints_in_expiry_check == {"awaiting", "age_check", "delete", "logout_delete"}

\* Positions at which a handler is suspended: its awaited backend calls.
SuspensionPoints == {"awaiting"}

\* The user the handler goes on with after an awaited call, looked up anew.
UserAfterAwait_rechecked(task, sess) ==
    IF task.cookie \in DOMAIN sess THEN task.user ELSE None

\* The user the handler goes on with after an awaited call: its own `user`
\* argument, resolved once by Depends(get_current_user).
UserAfterAwait(task, sess) == task.user

NewTask(route, cookie, overlapped) ==
    [ route |-> route, cookie |-> cookie,
      pc |-> IF route = "logout" THEN "logout_test" ELSE "lookup",
      started |-> FALSE, overlapped |-> overlapped, seen |-> "nothing",
      user |-> NotApplicable, performed |-> 0, status |-> 0,
      session_gone |-> FALSE ]

\* What a task finds for its cookie at its first line.
Seen(cookie, sess) ==
    IF cookie = NoCookie \/ cookie \notin DOMAIN sess THEN "absent"
    ELSE IF is_session_expired(sess[cookie].created_at) THEN "expired"
    ELSE "stored"

Without(sess, cookie) == [k \in DOMAIN sess \ {cookie} |-> sess[k]]

\* One step of get_current_user, of logout, or of a handler's body up to its
\* next await, on the mapping sess; o is the answer of the call a suspended
\* handler was waiting for.  sessions[session_id] and del sessions[session_id]
\* raise KeyError when the key is gone.
TaskStep(task, sess, o) ==
    LET t == [task EXCEPT !.started = TRUE] IN
    IF t.pc = "lookup"
    THEN IF t.cookie = NoCookie \/ t.cookie \notin DOMAIN sess
         THEN [task |-> [t EXCEPT !.pc = "handler", !.user = None,
                                  !.seen = Seen(t.cookie, sess)],
               sessions |-> sess]
         ELSE [task |-> [t EXCEPT !.pc = "age_check", !.seen = Seen(t.cookie, sess)],
               sessions |-> sess]
    ELSE IF t.pc = "age_check"
    THEN IF t.cookie \notin DOMAIN sess
         THEN [task |-> [t EXCEPT !.pc = "KeyError", !.status = 500], sessions |-> sess]
         ELSE IF is_session_expired(sess[t.cookie].created_at)
         THEN [task |-> [t EXCEPT !.pc = "delete"], sessions |-> sess]
         ELSE [task |-> [t EXCEPT !.pc = "handler", !.user = sess[t.cookie].user],
               sessions |-> sess]
    ELSE IF t.pc = "delete"
    THEN IF t.cookie \notin DOMAIN sess
         THEN [task |-> [t EXCEPT !.pc = "KeyError", !.status = 500], sessions |-> sess]
         ELSE [task |-> [t EXCEPT !.pc = "handler", !.user = None],
               sessions |-> Without(sess, t.cookie)]
    ELSE IF t.pc = "handler"
    THEN IF Falsy(t.user)
         THEN [task |-> [t EXCEPT !.pc = "done", !.status = 401], sessions |-> sess]
         ELSE [task |-> [t EXCEPT !.pc = "awaiting", !.performed = 1], sessions |-> sess]
    ELSE IF t.pc = "awaiting"
    THEN LET gone == t.session_gone \/ t.cookie \notin DOMAIN sess IN
         IF Falsy(UserAfterAwait(t, sess))
         THEN [task |-> [t EXCEPT !.pc = "done", !.status = 401, !.session_gone = gone],
               sessions |-> sess]
         ELSE IF t.performed < AsyncRoutes[t.route]
         THEN [task |-> [t EXCEPT !.performed = @ + 1, !.session_gone = gone],
               sessions |-> sess]
         ELSE [task |-> [t EXCEPT !.pc = "done", !.session_gone = gone,
                                  !.status = IF t.route = "moderate_comments_bulk" THEN 200
                                             ELSE IF o = "json" THEN 302 ELSE 500],
               sessions |-> sess]
    ELSE IF t.pc = "logout_test"
    THEN IF t.cookie # NoCookie /\ t.cookie \in DOMAIN sess
         THEN [task |-> [t EXCEPT !.pc = "logout_delete", !.seen = Seen(t.cookie, sess)],
               sessions |-> sess]
         ELSE [task |-> [t EXCEPT !.pc = "done", !.status = 302,
                                  !.seen = Seen(t.cookie, sess)],
               sessions |-> sess]
    ELSE \* logout_delete
         IF t.cookie \notin DOMAIN sess
         THEN [task |-> [t EXCEPT !.pc = "KeyError", !.status = 500], sessions |-> sess]
         ELSE [task |-> [t EXCEPT !.pc = "done", !.status = 302],
               sessions |-> Without(sess, t.cookie)]

Ended(task) == task.pc \in {"done", "KeyError"}

\* The state after one login at time 0, with no request in flight.
InitAsync ==
    /\ sessions = [k \in {FirstCookie} |-> [user |-> "alice", created_at |-> FirstCookie.stamp]]
    /\ issued = sessions
    /\ now = 0 /\ usec = 1
    /\ loggedOut = {}
    /\ resp = BaseResp("none", NoCookie, NotApplicable)
    /\ calls = <<>>
    /\ apiReq = IdleApiReq /\ apiResp = IdleApiResp
    /\ created = {}
    /\ smoke = Idle
    /\ inflight = NoTasks
    /\ helperReq = Idle /\ helperResp = Idle
    /\ client = Idle /\ click = Idle /\ widget = Idle
    /\ runner = Idle /\ enh = Idle /\ harness = Idle

otherThanAsync ==
    <<usec, issued, resp, calls, apiReq, apiResp, created, smoke, helperReq,
      helperResp, client, click, widget, runner, enh, harness>>

\* A request arrives and waits for the loop.
AsyncArrive(route, cookie) ==
    /\ Len(inflight.tasks) < MaxTasks
    /\ inflight' = [inflight EXCEPT !.tasks =
                       Append(@, NewTask(route, cookie,
                                  \E i \in 1..Len(inflight.tasks) :
                                     ~Ended(inflight.tasks[i])))]
    /\ UNCHANGED <<sessions, now, loggedOut>>
    /\ UNCHANGED otherThanAsync

\* The loop runs task i for one step: the task that holds the loop, or, when
\* none does, a task that is waiting for it.
AsyncStep(i, o) ==
    /\ i \in 1..Len(inflight.tasks)
    /\ LET t == inflight.tasks[i]
           r == TaskStep(t, sessions, o)
       IN /\ ~Ended(t)
          /\ \/ inflight.running = i
             \/ inflight.running = 0 /\ (~t.started \/ t.pc \in SuspensionPoints)
          /\ inflight' = [running |-> IF Ended(r.task) \/ r.task.pc \in SuspensionPoints
                                      THEN 0 ELSE i,
                          tasks |-> [inflight.tasks EXCEPT ![i] = r.task]]
          /\ sessions' = r.sessions
          /\ loggedOut' = IF t.pc = "logout_delete" /\ r.task.pc = "done"
                          THEN loggedOut \cup {t.cookie} ELSE loggedOut
    /\ UNCHANGED now
    /\ UNCHANGED otherThanAsync

\* Time passes while the loop is between tasks.
AsyncTick ==
    /\ inflight.running = 0
    /\ now + TickHours <= MaxTime
    /\ now' = now + TickHours
    /\ UNCHANGED <<sessions, loggedOut, inflight>>
    /\ UNCHANGED otherThanAsync

AsyncNext ==
    \/ \E route \in DOMAIN AsyncRoutes, cookie \in {NoCookie, FirstCookie} :
          AsyncArrive(route, cookie)
    \/ \E i \in 1..MaxTasks, o \in {"json", "status"} : AsyncStep(i, o)
    \/ AsyncTick

SpecAsync == InitAsync /\ [][AsyncNext]_vars

----------------------------------------------------------------------------
(* The site name the dashboard shows *)

\* site_info["site_name"] of the site detail page, threads being the titles
\* of the threads the backend lists for the site
site_detail_site_name(threads) ==
    IF threads # <<>> THEN replace(threads[1], MAIN_THREAD) ELSE None

----------------------------------------------------------------------------
(* Properties *)

\* The session was created more than 24 hours before the present instant.
OlderThan24h(created_at) ==
    \/ now - created_at.h > 24
    \/ now - created_at.h = 24 /\ usec > created_at.u

\* C1 -- Session lifecycle.  A request that resolves its user and bears a
\* cookie issued by a successful login or registration gets the payload the
\* backend returned for that login, as long as the cookie has not been
\* logged out and is not older than 24 hours; after a logout with the cookie,
\* or once it is older than 24 hours, it resolves to no user and
\* GET /dashboard answers 302.  (Checked on every step that handles a
\* request, against the state the request found.)
C1_SessionLifecycle ==
    [][ \A c \in DOMAIN issued :
          (now' = now /\ resp'.cookie = c /\ resp'.user # NotApplicable) =>
             IF c \notin loggedOut /\ ~OlderThan24h(issued[c].created_at)
             THEN resp'.user = issued[c].user
             ELSE /\ resp'.user = None
                  /\ resp'.route = "dashboard.dashboard" => resp'.status = 302
      ]_vars

\* C1 witness: the dashboard was requested with a cookie that was issued,
\* never logged out, and has aged past 24 hours: no user, 302, session gone.
C1_Witness ==
    /\ resp.route = "dashboard.dashboard"
    /\ resp.cookie \in DOMAIN issued
    /\ resp.cookie \notin loggedOut
    /\ OlderThan24h(issued[resp.cookie].created_at)
    /\ resp.user = None
    /\ resp.status = 302
    /\ resp.cookie \notin DOMAIN sessions

\* C2 -- Validation gating.  POST /register makes no backend call and
\* re-renders the form with an error when the name trims to fewer than 2
\* characters, the email fails validate_email or the password is shorter
\* than 6 characters; POST /login does so when the email fails
\* validate_email or the password is shorter than 6 characters.  With all
\* fields valid exactly one backend call (register, resp. login) is made.
C2_ValidationGating ==
    /\ resp.route = "auth.register" =>
          IF \/ Len(strip(resp.request.name)) < 2
             \/ ~validate_email(resp.request.email)
             \/ Len(resp.request.password) < 6
          THEN /\ calls = <<>>
               /\ resp.template = "auth/register.html"
               /\ resp.error # ""
          ELSE /\ Len(calls) = 1
               /\ calls[1].endpoint = <<"auth", "register">>
    /\ resp.route = "auth.login" =>
          IF \/ ~validate_email(resp.request.email)
             \/ Len(resp.request.password) < 6
          THEN /\ calls = <<>>
               /\ resp.template = "auth/login.html"
               /\ resp.error # ""
          ELSE /\ Len(calls) = 1
               /\ calls[1].endpoint = <<"auth", "login">>

\* C2 witness: a registration with a valid name and email and a password of
\* 5 characters was rejected without a backend call.
C2_Witness ==
    /\ resp.route = "auth.register"
    /\ Len(strip(resp.request.name)) >= 2
    /\ validate_email(resp.request.email)
    /\ Len(resp.request.password) = 5
    /\ calls = <<>>
    /\ resp.error = "Password must be at least 6 characters"

AuthRequiredRoutes ==
    { "dashboard.moderate_comment", "dashboard.delete_comment",
      "dashboard.create_site", "dashboard.create_thread",
      "dashboard.delete_thread",
      "export.download_export", "export.download_thread_export",
      "export.download_site_export",
      "comments.delete_comment", "comments.moderate_comment",
      "comments.moderate_comments_bulk",
      "threads.create_thread", "threads.delete_thread" }

\* C3 -- Every action or JSON endpoint that requires authentication answers
\* 401 and makes no backend call when the request's cookie is absent, is
\* not a stored session, or is a session older than 24 hours.
C3_Unauthenticated401 ==
    [][ ( /\ now' = now
          /\ resp'.route \in AuthRequiredRoutes
          /\ \/ resp'.cookie \notin DOMAIN sessions
             \/ OlderThan24h(sessions[resp'.cookie].created_at) )
        => (resp'.status = 401 /\ calls' = <<>>)
      ]_vars

\* C3 witness: an authentication-requiring endpoint was called with a
\* cookie that had been logged out, and answered 401 without a backend call.
C3_Witness ==
    /\ resp.route \in AuthRequiredRoutes
    /\ resp.cookie \in loggedOut
    /\ resp.status = 401
    /\ calls = <<>>

HtmlViews ==
    { "dashboard.dashboard", "dashboard.threads_page", "dashboard.comments_page",
      "dashboard.sites_page", "dashboard.site_detail_page",
      "dashboard.theme_customizer",
      "export.export_page", "export.export_thread_page",
      "export.export_site_page" }

\* C4 -- An unauthenticated request to a dashboard or export HTML view is
\* answered with a 302 whose location the composed application routes to
\* the auth module's login form.
C4_RedirectReachesLoginForm ==
    (resp.route \in HtmlViews /\ resp.user = None) =>
        /\ resp.status = 302
        /\ Resolve("GET", resp.location) = "auth.login_page"

\* C5 -- Bulk moderation.  For an authenticated POST /comments/moderate with
\* a list of comment ids: every id is attempted exactly once in input order,
\* the results list has one entry per input id in input order, an entry has
\* success true iff the backend call for it succeeded, a failed entry
\* carries an error string, and the response is a 200.
C5_BulkIsolation ==
    ( /\ resp.route = "comments.moderate_comments_bulk"
      /\ ~Falsy(resp.user)
      /\ resp.request # Malformed ) =>
        LET ids == resp.request.comment_ids
            results == resp.content.results
        IN /\ resp.status = 200
           /\ Len(calls) = Len(ids)
           /\ Len(results) = Len(ids)
           /\ \A i \in 1..Len(ids) :
                /\ calls[i].method = "PUT"
                /\ calls[i].endpoint = <<"comments", ids[i], "moderate">>
                /\ results[i].comment_id = ids[i]
                /\ results[i].success = (calls[i].outcome.kind = "json")
                /\ ~results[i].success => "error" \in DOMAIN results[i]

\* C5 witness: a batch of at least two ids whose first call failed and
\* whose last call succeeded.
C5_Witness ==
    /\ resp.route = "comments.moderate_comments_bulk"
    /\ resp.status = 200
    /\ Len(calls) >= 2
    /\ calls[1].outcome.kind # "json"
    /\ calls[Len(calls)].outcome.kind = "json"
    /\ ~resp.content.results[1].success
    /\ resp.content.results[Len(calls)].success

\* C6 -- Health check.  GET /health of the default router always answers
\* 200 with a JSON body; when the backend is unreachable or answers non-2xx
\* the body has status "error" with a message or a code.
C6_HealthResilience ==
    resp.route = "default.health" =>
        /\ resp.status = 200
        /\ resp.media_type = "application/json"
        /\ calls[1].outcome.kind \in {"status", "transport"} =>
              /\ resp.content.status = "error"
              /\ resp.content.message # "" \/ resp.content.code # 0

\* C6 witness: the health check was answered while the backend was
\* unreachable.
C6_Witness ==
    /\ resp.route = "default.health"
    /\ calls[1].outcome.kind = "transport"
    /\ resp.status = 200
    /\ resp.content.status = "error"

JsonProxyRoutes ==
    { "comments.create_comment", "comments.list_comments",
      "comments.get_comment", "comments.delete_comment",
      "comments.moderate_comment",
      "threads.create_thread", "threads.list_threads", "threads.get_thread",
      "threads.delete_thread",
      "widget.get_widget_comments", "widget.get_demo_thread",
      "api.api_list_comments", "api.api_get_comment_stats" }

\* C7 -- When the backend answers a proxied call with a non-2xx status S,
\* the JSON proxy endpoint answers its client with status S; it answers 500
\* when the upstream status is not known.
C7_ProxyKeepsUpstreamStatus ==
    (resp.route \in JsonProxyRoutes /\ Len(calls) = 1) =>
        /\ calls[1].outcome.kind = "status" => resp.status = calls[1].outcome.status
        /\ calls[1].outcome.kind \in {"transport", "text"} => resp.status = 500

\* Every parent_id of the result set is empty or the id of one of its
\* comments.
Closed(comments) ==
    \A i \in 1..Len(comments) :
        comments[i].parent_id # NoParent => comments[i].parent_id \in Ids(comments)

RECURSIVE ChainLength(_, _, _)
\* The number of parent links from the comment to a comment without a
\* parent, in a closed result set; -1 when none is reached in `fuel` links.
ChainLength(comments, id, fuel) ==
    IF ParentOf(comments, id) = NoParent THEN 0
    ELSE IF fuel = 0 THEN -1
    ELSE LET d == ChainLength(comments, ParentOf(comments, id), fuel - 1)
         IN IF d < 0 THEN -1 ELSE d + 1

Acyclic(comments) ==
    \A id \in Ids(comments) : ChainLength(comments, id, Len(comments)) >= 0

IdsOf(seq) == [k \in 1..Len(seq) |-> seq[k].id]

RECURSIVE TreeWalk(_, _)
\* Every occurrence of a comment in an exported tree, with the depth it
\* occurs at and the ids of its replies list.
TreeWalk(nodes, depth) ==
    Flatten([k \in 1..Len(nodes) |->
        << [id |-> nodes[k].id, depth |-> depth, replies |-> IdsOf(nodes[k].replies)] >>
        \o TreeWalk(nodes[k].replies, depth + 1)])

ThreadExported ==
    /\ apiReq.op = "thread"
    /\ apiResp.status = 200
    /\ apiReq.format \in {"json", "yaml"}

\* C8 -- Thread-export reply tree.  For a result set whose parent ids are
\* all empty or ids of the set and whose parent links are acyclic: the
\* exported top-level list is the comments without a parent, in fetch
\* order; every replies list is the comments whose parent is that comment,
\* in fetch order; every comment occurs exactly once in the tree, at the
\* depth that is the length of its parent chain.
C8_ReplyTree ==
    (ThreadExported /\ Closed(apiReq.comments) /\ Acyclic(apiReq.comments)) =>
        LET comments == apiReq.comments
            tree == apiResp.body.comments
            walk == TreeWalk(tree, 0)
        IN /\ IdsOf(tree) = IdsOf(SelectSeq(comments, LAMBDA c : c.parent_id = NoParent))
           /\ \A k \in 1..Len(walk) :
                 walk[k].replies =
                    IdsOf(SelectSeq(comments, LAMBDA c : c.parent_id = walk[k].id))
           /\ \A i \in 1..Len(comments) :
                 /\ Cardinality({k \in 1..Len(walk) : walk[k].id = comments[i].id}) = 1
                 /\ \A k \in 1..Len(walk) :
                       walk[k].id = comments[i].id =>
                          walk[k].depth = ChainLength(comments, comments[i].id,
                                                      Len(comments))

\* C8 witness: an exported tree with a reply to a reply (depth 2) whose
\* parent was fetched after it.
C8_Witness ==
    /\ ThreadExported
    /\ Closed(apiReq.comments) /\ Acyclic(apiReq.comments)
    /\ \E k \in 1..Len(TreeWalk(apiResp.body.comments, 0)) :
          TreeWalk(apiResp.body.comments, 0)[k].depth = 2
    /\ \E i, j \in 1..Len(apiReq.comments) :
          i < j /\ apiReq.comments[i].parent_id = apiReq.comments[j].id

DownloadRoutes ==
    { "export.download_export", "export.download_thread_export",
      "export.download_site_export" }

\* The non-JSON formats each download endpoint accepts, with the media
\* type of each.
NonJsonTypes ==
    [ r \in DownloadRoutes |->
        IF r = "export.download_export"
        THEN [yaml |-> "application/yaml", csv |-> "text/csv"]
        ELSE IF r = "export.download_thread_export"
        THEN [html |-> "text/html", yaml |-> "application/yaml"]
        ELSE [yaml |-> "application/yaml"] ]

\* What the export API answers a successful request of the endpoint in the
\* format with.
ExportApiAnswer(route, format) ==
    IF route = "export.download_export"
    THEN export_user_data_response(
            [ op |-> "user", user |-> 1, format |-> format,
              include_comments |-> TRUE, include_metadata |-> TRUE,
              yaml |-> TRUE, threads |-> OneThread ])
    ELSE IF route = "export.download_thread_export"
    THEN export_thread_data_response(
            [ op |-> "thread", user |-> 1, format |-> format,
              template |-> "default", yaml |-> TRUE,
              thread |-> [id |-> 1, usuario_proprietario_id |-> 1],
              comments |-> OneThread[1].comments ])
    ELSE export_site_data_response(
            [ op |-> "site", user |-> 1, site_id |-> "site-1", format |-> format,
              yaml |-> TRUE, threads |-> OneThread ])

\* C9 -- For each dashboard download endpoint and each non-JSON format it
\* accepts, when the export API answers successfully in that format's
\* plain-text form, an authenticated download answers 200 with the content
\* as an attachment of the matching media type and file extension.
C9_NonJsonDownloadStreams ==
    ( /\ resp.route \in DownloadRoutes
      /\ ~Falsy(resp.user)
      /\ resp.format \in DOMAIN NonJsonTypes[resp.route]
      /\ Len(calls) = 1
      /\ ExportApiAnswer(resp.route, resp.format).status = 200
      /\ calls[1].outcome = AsOutcome(ExportApiAnswer(resp.route, resp.format)) ) =>
        /\ resp.status = 200
        /\ resp.attachment
        /\ resp.media_type = NonJsonTypes[resp.route][resp.format]
        /\ resp.ext = resp.format

CsvExported ==
    /\ apiReq.op = "user"
    /\ apiReq.format = "csv"
    /\ apiResp.status = 200

RECURSIVE Sum(_)
Sum(seq) == IF seq = <<>> THEN 0 ELSE Head(seq) + Sum(Tail(seq))

\* The approved comments of the caller's threads
ApprovedComments ==
    Sum([t \in 1..Len(apiReq.threads) |-> Len(apiReq.threads[t].comments)])

SevenColumns ==
    << "id", "thread_id", "thread_title", "author_name", "content",
       "created_at", "is_approved" >>

CsvHeaderAndRows(n) ==
    /\ apiResp.body.header = <<SevenColumns>>
    /\ Len(apiResp.body.rows) = n
    /\ \A k \in 1..Len(apiResp.body.rows) :
          /\ Len(apiResp.body.rows[k]) = 7
          /\ \A i \in 1..7 : apiResp.body.rows[k][i].column = SevenColumns[i]
    /\ \A i \in 1..7 : SevenColumns[i] # "parent_id"

\* C10 as stated -- CSV user-data export: one data row per approved comment
\* of the caller's threads, preceded by one header row of exactly the seven
\* columns; parent_id in no row and not in the header.
C10_CsvAsStated ==
    CsvExported => CsvHeaderAndRows(ApprovedComments)

\* C10 as amended -- CSV user-data export: when include_comments is set and
\* the caller's threads have at least one approved comment, the output is
\* one header row of exactly the seven columns followed by one data row per
\* approved comment, parent_id in none of them; otherwise the output is
\* empty (no header, no rows).
C10_CsvHeaderWhenComments ==
    CsvExported =>
        IF apiReq.include_comments /\ ApprovedComments > 0
        THEN CsvHeaderAndRows(ApprovedComments)
        ELSE apiResp.body.header = <<>> /\ apiResp.body.rows = <<>>

\* C10 witness: a CSV export of a root comment and a reply to it: a header
\* and two rows.
C10_Witness ==
    /\ CsvExported
    /\ apiReq.include_comments
    /\ \E t \in 1..Len(apiReq.threads) :
          \E k \in 1..Len(apiReq.threads[t].comments) :
             apiReq.threads[t].comments[k].parent_id # NoParent
    /\ ApprovedComments = 2
    /\ Len(apiResp.body.rows) = 2
    /\ Len(apiResp.body.header) = 1

\* The threads the backend holds after the creation calls sent so far, in
\* some order.
RECURSIVE CreatedThreads(_)
CreatedThreads(S) ==
    IF S = {} THEN <<>>
    ELSE LET c == CHOOSE x \in S : TRUE
         IN <<[external_page_id |-> c.external_page_id, url |-> c.url,
               title |-> <<"t">>]>> \o CreatedThreads(S \ {c})

GroupOf(groups, thread) ==
    { k \in 1..Len(groups) :
        \E j \in 1..Len(groups[k].threads) : groups[k].threads[j] = thread }

\* C11 -- Site identity is deterministic across creation calls: any two
\* thread-creation payloads sent by POST /dashboard/sites or
\* POST /dashboard/threads with the same URL carry the same
\* external_page_id, whatever the name, title or time of the call, so that
\* group_threads_by_site puts threads of the same URL in the same group.
C11_SiteIdDeterministic ==
    /\ \A a, b \in created : a.url = b.url => a.external_page_id = b.external_page_id
    /\ LET threads == CreatedThreads(created)
           groups == group_threads_by_site(threads)
       IN \A i, j \in 1..Len(threads) :
             threads[i].url = threads[j].url =>
                /\ GroupOf(groups, threads[i]) = GroupOf(groups, threads[j])
                /\ Cardinality(GroupOf(groups, threads[i])) = 1

\* C11 witness: a site and a thread were created for the same URL by
\* separate calls, the later one after time has passed, and another URL was
\* used as well.
C11_Witness ==
    /\ \E a, b \in created :
          /\ a.url = b.url
          /\ a.via = "dashboard.create_site" /\ b.via = "dashboard.create_thread"
    /\ \E a, b \in created : a.url # b.url
    /\ resp.route = "dashboard.create_thread"
    /\ now > 0


\* The title without one trailing ' - Main Thread'.
RemoveSuffix(title, suffix) ==
    IF title # <<>> /\ title[Len(title)] = suffix
    THEN SubSeq(title, 1, Len(title) - 1)
    ELSE title

\* The position in threads of the first thread of site_id.
FirstSeen(threads, site_id) ==
    CHOOSE i \in 1..Len(threads) :
        /\ threads[i].external_page_id = site_id
        /\ \A j \in 1..(i - 1) : threads[j].external_page_id # site_id

GroupsReturned ==
    /\ helperReq.fn = "group_threads_by_site"
    /\ helperResp.pc = "returned"

\* C12 -- group_threads_by_site partitions its input: one group per distinct
\* external_page_id; each group's threads are the input threads of that id,
\* in input order (so every thread is in exactly one group); site_url is the
\* first-seen thread's url, site_name the first-seen thread's title with the
\* suffix ' - Main Thread' removed, and total_comments is 0.
C12_GroupsPartitionInput ==
    GroupsReturned =>
        LET threads == helperReq.arg
            groups == helperResp.value
            ids == { threads[i].external_page_id : i \in 1..Len(threads) }
        IN /\ { groups[k].site_id : k \in 1..Len(groups) } = ids
           /\ Len(groups) = Cardinality(ids)
           /\ \A k \in 1..Len(groups) :
                 LET g == groups[k]
                     first == threads[FirstSeen(threads, g.site_id)]
                 IN /\ g.threads = SelectSeq(threads,
                                      LAMBDA t : t.external_page_id = g.site_id)
                    /\ g.site_url = first.url
                    /\ g.site_name = RemoveSuffix(first.title, MAIN_THREAD)
                    /\ g.total_comments = 0

\* The number of comments whose is_approved is v.
CountApproved(comments, v) ==
    Cardinality({ i \in 1..Len(comments) : IsApproved(comments[i], v) })

\* C13 -- calculate_stats: total is the length of the list; approved, pending
\* and rejected count the comments whose is_approved is 1, 0 and 2; their sum
\* is at most total, and equals total exactly when every comment's
\* is_approved is 0, 1 or 2.
C13_StatsCounts ==
    (helperReq.fn = "calculate_stats" /\ helperResp.pc = "returned") =>
        LET comments == helperReq.arg
            stats == helperResp.value
            sum == stats.approved + stats.pending + stats.rejected
        IN /\ stats.total = Len(comments)
           /\ stats.approved = CountApproved(comments, 1)
           /\ stats.pending = CountApproved(comments, 0)
           /\ stats.rejected = CountApproved(comments, 2)
           /\ sum <= stats.total
           /\ sum = stats.total <=>
                 \A i \in 1..Len(comments) :
                    \E v \in {0, 1, 2} : IsApproved(comments[i], v)

\* Three comments: one approved, one without is_approved, one with the value
\* 3; the last two are counted in total only.
C13_Witness ==
    /\ helperReq.fn = "calculate_stats"
    /\ helperResp.pc = "returned"
    /\ Len(helperReq.arg) = 3
    /\ \E i, j \in 1..3 :
          /\ "is_approved" \notin DOMAIN helperReq.arg[i]
          /\ IsApproved(helperReq.arg[j], 3)
    /\ helperResp.value = [total |-> 3, approved |-> 1, pending |-> 0, rejected |-> 0]


\* The error kinds the caller can tell apart, from the exception's message.
StatusError(r) == r.kind = "raise" /\ r.type = "Exception" /\ r.message[1] = "API Error "
UnreachableError(r) == r.kind = "raise" /\ r.type = "Exception" /\ r.message[1] = "Request failed: "

\* What a method may return for a parsed body: the body, or for the two list
\* methods the list it holds.
ParsedBody(method, body) ==
    {body} \cup (IF method \in ListMethods THEN {EmptyList, [type |-> "list", items |-> "some"]}
                 ELSE {})

\* C14 -- Every API-client method issues exactly one HTTP request and ends in
\* exactly one of: the parsed body (2xx response); a status error with the
\* upstream status and body text (non-2xx response); an unreachable error
\* with the underlying message (any other failure).  A status error is never
\* reported as an unreachable error.
C14_ClientOutcomes ==
    client.pc = "done" =>
        LET a == client.answer
            r == client.result
        IN /\ client.requests = <<ClientMethods[client.method]>>
           /\ \/ r.kind = "return"
              \/ StatusError(r)
              \/ UnreachableError(r)
           /\ r.kind = "return" =>
                 /\ a.kind = "json" /\ is_success(a.status)
                 /\ r.value \in ParsedBody(client.method, a.body)
           /\ (a.kind # "transport" /\ ~is_success(a.status)) =>
                 /\ StatusError(r)
                 /\ r.message = <<"API Error ", a.status, a.text>>
           /\ StatusError(r) => a.kind # "transport" /\ ~is_success(a.status)
           /\ a.kind = "transport" =>
                 /\ UnreachableError(r)
                 /\ r.message[2] = a.message


\* C15 -- Thread export access control.  GET /export/threads/{id} answers 404
\* when the thread does not exist or belongs to another user, and then no
\* comments are fetched or returned; comments are fetched only after the
\* ownership check has passed.
C15_ThreadExportOwnership ==
    (apiReq.op = "thread" /\ apiResp # IdleApiResp) =>
        LET thread == apiReq.thread
            owned == thread # NoThread /\ thread.usuario_proprietario_id = apiReq.user
        IN /\ ~owned =>
                 /\ apiResp.status = 404
                 /\ apiResp.fetched = <<>>
                 /\ apiResp.body = [detail |-> "Thread not found"]
           /\ apiResp.fetched # <<>> => owned

\* Another user's thread, which has a comment, was asked for and refused.
C15_Witness ==
    /\ apiReq.op = "thread"
    /\ apiReq.thread # NoThread
    /\ apiReq.thread.usuario_proprietario_id # apiReq.user
    /\ apiReq.comments # <<>>
    /\ apiResp.status = 404


\* The number of failed attempts in a list of attempt outcomes.
Failures(tried) == Cardinality({ i \in 1..Len(tried) : tried[i] = "failed" })

ClickEnded == click.pc \in {"returned", "raised"}

ClickRetryBounds ==
    click.pc # "idle" =>
        /\ Len(click.tried) <= 3
        /\ \A i \in 1..Len(click.tried) :
              click.tried[i] = "clicked" => i = Len(click.tried) /\ click.pc = "returned"
        /\ Len(click.slept) <= 2
        /\ \A k \in 0..1 :
              k + 1 <= Len(click.slept) =>
                 /\ click.slept[k + 1] >= Pow2(k) * Unit
                 /\ click.slept[k + 1] <= (Pow2(k) + 1) * Unit
        /\ ClickEnded =>
              /\ Len(click.slept) = IF Failures(click.tried) >= 2 THEN 2
                                    ELSE Failures(click.tried)
              /\ click.pc = "raised" <=> click.tried = <<"failed", "failed", "failed">>
              /\ click.pc = "returned" <=> click.tried[Len(click.tried)] = "clicked"

\* C16 -- safe_click makes at most 3 attempts, returns at the first attempt
\* that succeeds, sleeps 2^k seconds plus a jitter in [0, 1] after the k-th
\* failed attempt (k = 0, 1) and not after the third, raises AutomationError
\* exactly when all 3 attempts failed, and always terminates.
C16_ClickRetry == []ClickRetryBounds /\ <>ClickEnded

\* Three failed attempts, two sleeps, AutomationError.
C16_Witness ==
    /\ click.pc = "raised"
    /\ click.tried = <<"failed", "failed", "failed">>
    /\ Len(click.slept) = 2
    /\ click.slept[2] > click.slept[1]


WidgetEnded == widget.pc \in {"returned", "raised"}

\* C17 -- Widget-commenting script: when filling or submitting a comment
\* fails, the failure is logged and every remaining comment is still
\* attempted; one comment's failure never aborts the run.
C17_CommentFailureContinues ==
    (WidgetEnded /\ widget.failed # 0) =>
        /\ \E i \in 1..Len(widget.log) :
              widget.log[i] \in {FormError("fill_comment_form"), FormError("submit_comment")}
        /\ widget.attempted = 1..NumComments
        /\ widget.pc = "returned"


\* C18 -- Headless runner teardown: whenever the runner has started a virtual
\* display process, that process has been terminated or killed by the time
\* run() is over, whatever the outcome of the target script and wherever
\* after the start of the process the run was interrupted.
C18_DisplayTornDown ==
    (runner.pc \in {"returned", "exited"} /\ runner.xvfb_process # "none") =>
        runner.xvfb_process \in {"terminated", "killed"}


\* C19 -- Enhanced automation simulation mode: a run started with --simulate
\* verifies no display and performs no real GUI interaction (click,
\* keystroke, screenshot capture, browser launch) at any step, whether or
\* not the desktop-automation library is importable.
C19_SimulateTouchesNothing ==
    (enh.pc # "idle" /\ enh.simulate_only) => enh.real = {}


\* The tests ran in the fixed order, one result was recorded per test, and a
\* test is recorded as passed exactly when it returned True.
FiveTestsRecorded ==
    /\ Len(harness.ran) = 5
    /\ Len(harness.results) = 5
    /\ \A i \in 1..5 :
          /\ harness.ran[i].test_name = tests[i]
          /\ harness.results[i].test_name = tests[i]
          /\ harness.results[i].result <=> harness.ran[i].outcome = "True"

FiveTestsPassed ==
    /\ Len(harness.ran) = 5
    /\ \A i \in 1..5 : harness.ran[i].outcome = "True"

\* C20 (as stated) -- Full suite: the browser is set up once, the five tests
\* run in the fixed order, a test that fails or raises is recorded as failed
\* and the later tests still run, the results list always has exactly five
\* entries, the browser is torn down in every case, and the exit code is 0
\* iff all five tests passed.
C20_FullSuiteAsStated ==
    harness.pc = "exited" =>
        /\ harness.setups = 1
        /\ FiveTestsRecorded
        /\ harness.driver = "quit"
        /\ harness.exit_code = 0 <=> FiveTestsPassed

\* C20 (amended) -- When the browser starts, the five tests run in the fixed
\* order whatever the earlier ones did, each recorded as passed iff it
\* returned True, the browser's quit() is called, and the exit code is 0 iff
\* all five passed and quit() did not raise; when the browser does not
\* start, no test runs, nothing is recorded and the exit code is 1.  The
\* browser is set up once in both cases.
C20_FullSuite ==
    harness.pc = "exited" =>
        /\ harness.setups = 1
        /\ harness.driver # "open"
        /\ harness.driver # "None" =>
              /\ FiveTestsRecorded
              /\ harness.exit_code = 0 <=> (FiveTestsPassed /\ harness.driver = "quit")
        /\ harness.driver = "None" =>
              /\ harness.ran = <<>>
              /\ harness.results = <<>>
              /\ harness.exit_code = 1
        /\ harness.exit_code \in {0, 1}

\* The second test raised, the fourth returned False, the others passed: all
\* five are recorded, the browser is closed and the exit code is 1.
C20_Witness ==
    /\ harness.pc = "exited"
    /\ Len(harness.ran) = 5
    /\ harness.ran[2].outcome = "raises"
    /\ harness.ran[4].outcome = "False"
    /\ harness.ran[5].outcome = "True"
    /\ harness.driver = "quit"
    /\ harness.exit_code = 1


\* The steps of FullSteps for which a request is due, given whether the root
\* comment id is available.
StepsDue(comment_id) ==
    SelectSeq(FullSteps, LAMBDA step : step # "update comment" \/ comment_id)

\* C21 -- Smoke-test sequencing in full mode: user creation is the first
\* request and, failing, the only one; thread creation follows a successful
\* user creation and, failing, is the last request; once a thread exists,
\* root comment, reply, reply to reply, fourth-level reply, update, list
\* comments and list threads are requested in that order whatever fails
\* among them, the update being left out only without a root comment id.
C21_SmokeSequencing ==
    (smoke.pc \in {"returned", "crashed"} /\ smoke.mode = "full") =>
        /\ smoke.requests[1] = "create user"
        /\ "create user" \in smoke.failed => smoke.requests = <<"create user">>
        /\ "create user" \notin smoke.failed =>
              /\ Len(smoke.requests) >= 2
              /\ smoke.requests[2] = "create thread"
        /\ "create thread" \in smoke.failed =>
              smoke.requests = <<"create user", "create thread">>
        /\ (smoke.failed \cap {"create user", "create thread"} = {}) =>
              smoke.requests = <<"create user", "create thread">>
                                  \o StepsDue(smoke.comment_id)


\* C22 -- The session mapping gains an entry only after the backend login or
\* register call has returned successfully; when that call fails (status
\* error, transport error, unreadable body) the mapping is unchanged, no
\* session cookie is set, and POST /login re-renders the form with
\* "Invalid credentials".  (Checked on every login and registration step.)
C22_SessionOnlyAfterBackendSuccess ==
    [][ resp'.route \in {"auth.login", "auth.register"} =>
          LET called == calls' # <<>>
              succeeded == called /\ calls'[1].outcome.kind = "json"
          IN /\ sessions' # sessions =>
                   /\ succeeded
                   /\ DOMAIN sessions' = DOMAIN sessions \cup {resp'.set_cookie}
                   /\ \A k \in DOMAIN sessions : sessions'[k] = sessions[k]
             /\ succeeded =>
                   /\ resp'.set_cookie \in DOMAIN sessions' \ DOMAIN sessions
                   /\ sessions'[resp'.set_cookie].user = calls'[1].outcome.body
             /\ ~succeeded =>
                   /\ sessions' = sessions
                   /\ resp'.set_cookie = NoCookie
                   /\ resp'.status # 302
             /\ (called /\ ~succeeded /\ resp'.route = "auth.login") =>
                   /\ resp'.template = "auth/login.html"
                   /\ resp'.error = "Invalid credentials"
      ]_vars

\* A login was refused by a backend that could not be reached, while an
\* earlier session is stored: the form is shown again, with no cookie.
C22_Witness ==
    /\ resp.route = "auth.login"
    /\ calls # <<>>
    /\ calls[1].outcome.kind = "transport"
    /\ resp.error = "Invalid credentials"
    /\ resp.set_cookie = NoCookie
    /\ DOMAIN sessions # {}


\* C23 -- Lazy, creation-anchored expiry.  A stored session leaves the
\* mapping only by a logout carrying its cookie or by a get_current_user
\* call with its cookie that finds it older than 24 hours; no step rewrites a
\* stored session, so a read never moves created_at; and the passing of time
\* removes nothing.
C23_LazyExpiry ==
    [][ /\ \A k \in DOMAIN sessions :
              IF k \in DOMAIN sessions'
              THEN sessions'[k] = sessions[k]
              ELSE /\ resp'.cookie = k
                   /\ \/ resp'.route = "auth.logout"
                      \/ /\ resp'.user = None
                         /\ OlderThan24h(sessions[k].created_at)
        /\ now' # now => sessions' = sessions
      ]_vars

\* A session older than 24 hours is still stored after the dashboard was
\* opened with another, younger session, which resolved to its user.
C23_Witness ==
    /\ resp.route = "dashboard.dashboard"
    /\ resp.cookie \in DOMAIN sessions
    /\ resp.user = sessions[resp.cookie].user
    /\ \E k \in DOMAIN sessions :
          /\ k # resp.cookie
          /\ OlderThan24h(sessions[k].created_at)


\* C24: the lookup, age check and deletion of get_current_user, and the
\* membership test and deletion of logout, run with no other task in between;
\* so requests in flight together with the same expired or logged-out cookie
\* all resolve to no user, and none fails on a deletion of an absent key.
C24_ExpiryCheckAtomic ==
    \A i \in 1..Len(inflight.tasks) :
        LET t == inflight.tasks[i] IN
        /\ t.pc # "KeyError"
        /\ t.pc \in {"age_check", "delete", "logout_delete"} => inflight.running = i
        /\ (t.pc \in {"handler", "done"} /\ t.route # "logout"
               /\ t.seen \in {"absent", "expired"}) => t.user = None
        /\ (t.pc = "done" /\ t.route # "logout" /\ t.seen \in {"absent", "expired"})
               => t.status = 401

C24_Witness ==
    /\ Len(inflight.tasks) = 2
    /\ \A i \in 1..2 : /\ inflight.tasks[i].cookie = FirstCookie
                       /\ inflight.tasks[i].route # "logout"
                       /\ inflight.tasks[i].pc = "done"
                       /\ inflight.tasks[i].user = None
    /\ inflight.tasks[2].overlapped
    /\ {inflight.tasks[1].seen, inflight.tasks[2].seen} = {"expired", "absent"}

\* C26: a handler of an authenticated action resolves its user once, before
\* its first backend call; when the session is removed while the handler is
\* suspended, it still performs every backend call and answers as for a
\* signed-in user.
C26_AuthEvaluatedOnce ==
    \A i \in 1..Len(inflight.tasks) :
        LET t == inflight.tasks[i] IN
        (t.route # "logout" /\ t.pc = "done" /\ ~Falsy(t.user)) =>
            /\ t.performed = AsyncRoutes[t.route]
            /\ t.status # 401

C26_Witness ==
    \E i \in 1..Len(inflight.tasks) :
        LET t == inflight.tasks[i] IN
        /\ t.route # "logout" /\ t.pc = "done" /\ t.session_gone
        /\ t.user = "alice"
        /\ t.performed = AsyncRoutes[t.route]
        /\ t.status \in {200, 302}


RECURSIVE UnderOrphan(_, _, _)
\* The comment id has an ancestor, within n steps, whose parent_id names a
\* comment that is not in the result set.
UnderOrphan(comments, id, n) ==
    LET p == ParentOf(comments, id) IN
    IF p = NoParent THEN FALSE
    ELSE IF p \notin Ids(comments) THEN TRUE
    ELSE IF n = 0 THEN FALSE
    ELSE UnderOrphan(comments, p, n - 1)

\* The comments a thread export shows, nested ones included.
Shown(r) ==
    IF r.media_type = "text/html" THEN r.body.rendered
    ELSE generate_html(r.body.comments)

ThreadExportAnswered ==
    apiReq.op = "thread" /\ apiResp.status = 200

\* C25: in a thread export, a comment whose parent_id names a comment that is
\* not in the result set is nowhere in the tree, and neither is any comment
\* below it; every comment at the top level of the tree has no parent_id.
C25_OrphansDropped ==
    ThreadExportAnswered =>
        LET cs == apiReq.comments
            shown == { Shown(apiResp)[k].id : k \in 1..Len(Shown(apiResp)) }
        IN /\ \A i \in 1..Len(cs) :
                 UnderOrphan(cs, cs[i].id, Len(cs)) => cs[i].id \notin shown
           /\ \A k \in 1..Len(Shown(apiResp)) :
                 Shown(apiResp)[k].level = 0 =>
                     ParentOf(cs, Shown(apiResp)[k].id) = NoParent

C25_Witness ==
    /\ ThreadExportAnswered
    /\ apiResp.media_type = "application/json"
    /\ LET cs == apiReq.comments IN
       /\ Len(cs) = 3
       /\ \E i, j, k \in 1..3 :
             /\ cs[i].parent_id \notin Ids(cs) \cup {NoParent}
             /\ cs[j].parent_id = cs[i].id
             /\ cs[k].parent_id = NoParent
             /\ Len(apiResp.body.comments) = 1
             /\ apiResp.body.comments[1].id = cs[k].id
             /\ apiResp.body.comments[1].replies = <<>>

\* C28: in a thread export, thread.comment_count is the number of comments
\* in the returned tree, top-level and nested.
C28_CountMatchesTree ==
    (ThreadExportAnswered /\ apiResp.media_type = "application/json") =>
        apiResp.body.thread.comment_count = Len(generate_html(apiResp.body.comments))

\* C29: in a user-data export, export_info.total_comments and each thread's
\* comment_count are the numbers of approved comments fetched, whatever
\* include_comments and include_metadata are.
C29_CountsIgnoreFlags ==
    (apiReq.op = "user" /\ apiResp.status = 200 /\ apiResp.kind = "json") =>
        LET ts == apiReq.threads IN
        /\ apiResp.body.export_info.total_comments =
              Len(Flatten([t \in 1..Len(ts) |-> ts[t].comments]))
        /\ \A t \in 1..Len(ts) :
              apiResp.body.threads[t].comment_count = Len(ts[t].comments)

\* C30: a site created with name N has the title N + " - Main Thread", and
\* the site name derived from that title is N in the dashboard's grouping,
\* on the site detail page and in the backend's site export.
C30_SiteNameRoundTrip ==
    (resp.route = "dashboard.create_site" /\ calls # <<>>) =>
        \E N \in SiteNames :
            LET title == calls[1].data.title IN
            /\ title = N \o <<MAIN_THREAD>>
            /\ group_threads_by_site(<<calls[1].data>>)[1].site_name = N
            /\ site_detail_site_name(<<title>>) = N
            /\ export_site_name(<<title>>, calls[1].data.external_page_id) = N

\* The two derivations of the dashboard alone
C30_DashboardOnly ==
    (resp.route = "dashboard.create_site" /\ calls # <<>>) =>
        \E N \in SiteNames :
            LET title == calls[1].data.title IN
            /\ title = N \o <<MAIN_THREAD>>
            /\ group_threads_by_site(<<calls[1].data>>)[1].site_name = N
            /\ site_detail_site_name(<<title>>) = N


\* C27: sessions are independent of each other.  A login or registration
\* that sets a cookie adds one entry under an id that was not stored and
\* leaves every other entry as it was; every stored session that is not
\* older than 24 hours resolves to its own user, whichever others exist; a
\* logout removes the session of the cookie it carries and no other, and
\* with no cookie or an unknown one leaves the mapping unchanged.
C27_SessionsIndependent ==
    [][ now' = now =>
          /\ resp'.set_cookie # NoCookie =>
                /\ resp'.set_cookie \notin DOMAIN sessions
                /\ DOMAIN sessions' = DOMAIN sessions \cup {resp'.set_cookie}
                /\ \A k \in DOMAIN sessions : sessions'[k] = sessions[k]
          /\ resp'.route = "auth.logout" =>
                /\ DOMAIN sessions' = DOMAIN sessions \ {resp'.cookie}
                /\ \A k \in DOMAIN sessions' : sessions'[k] = sessions[k]
                /\ (resp'.cookie = NoCookie \/ resp'.cookie \notin DOMAIN sessions)
                      => sessions' = sessions
          /\ \A k \in DOMAIN sessions' :
                ~is_session_expired(sessions'[k].created_at) =>
                    /\ get_current_user(k)'.user = sessions'[k].user
                    /\ get_current_user(k)'.sessions = sessions'
      ]_vars

\* One of two sessions of the same user was logged out and the other is
\* still stored and resolves to the user.
C27_Witness ==
    /\ resp.route = "auth.logout"
    /\ resp.cookie \in loggedOut
    /\ resp.cookie \notin DOMAIN sessions
    /\ \E k \in DOMAIN sessions :
          /\ sessions[k].user = issued[resp.cookie].user
          /\ get_current_user(k).user = sessions[k].user

====
